---------------------------- MODULE Spec2Model ----------------------------
(***************************************************************************)
(* Model of the trading-report pipeline of src/src/pages/Index.tsx:        *)
(* the FIFO position ledger buildTradesFromOrders, the aggregate           *)
(* calculateMetrics, the renderer generateReport and the steps of          *)
(* processCSV that run them, and of parseReport of                         *)
(* src/src/components/FileUpload.tsx, which reads the rendered text back.  *)
(*                                                                         *)
(* Numbers.  Prices, quantities, multipliers and timestamps are integers.  *)
(* A JavaScript division a / b is kept as the pair <<a, b>> (a rational,   *)
(* in lowest terms); <<1, 0>> is Number.POSITIVE_INFINITY.                     *)
(* Strings that the code inspects character by character (symbols) are     *)
(* sequences of one-character strings.                                     *)
(***************************************************************************)
EXTENDS Integers, Sequences, FiniteSets, TLC

(***************************************************************************)
(* Bounds of the model.                                                    *)
(***************************************************************************)
MaxOrders == 3      \* orders in one input file
MaxQty == 5         \* largest |quantity| of one order
MaxTrades == 4      \* trades in a list handed directly to calculateMetrics
MaxRows == 2        \* trades in a list handed directly to generateReport

(***************************************************************************)
(* Inputs.                                                                 *)
(***************************************************************************)
Symbols == { <<"N", "Q", "2", "5">>, <<"Y", "M", "2", "5">> }
Prices == { 100, 110 }
Quantities == { q \in (0 - MaxQty)..MaxQty : q # 0 }

(***************************************************************************)
(* Math.min, Math.abs and the arithmetic helpers.                          *)
(***************************************************************************)
Min(a, b) == IF a < b THEN a ELSE b

Abs(a) == IF a < 0 THEN 0 - a ELSE a

RECURSIVE Gcd(_, _)
Gcd(a, b) == IF b = 0 THEN a ELSE Gcd(b, a % b)

Sign(a) == IF a < 0 THEN 0 - 1 ELSE IF a > 0 THEN 1 ELSE 0

Num(n) == <<n, 1>>

POSITIVE_INFINITY == <<1, 0>>

\* a / b : the quotient in lowest terms with a positive denominator;
\* x / 0 is +Infinity, -Infinity or NaN (<<0, 0>>) by the sign of x
Div(a, b) ==
  IF b = 0 THEN <<Sign(a), 0>>
  ELSE LET g == Gcd(Abs(a), Abs(b))
       IN <<(Sign(b) * a) \div g, Abs(b) \div g>>

\* a + b, a / n and Math.abs(a) on quotients
RatAdd(a, b) == Div(a[1] * b[2] + b[1] * a[2], a[2] * b[2])

RatDivInt(a, n) == Div(a[1], a[2] * n)

RatAbs(a) == <<Abs(a[1]), a[2]>>

(***************************************************************************)
(* Configuration.                                                          *)
(***************************************************************************)
CAPITAL_BASE == 100000

UpperLetters ==
  { "A", "B", "C", "D", "E", "F", "G", "H", "I", "J", "K", "L", "M",
    "N", "O", "P", "Q", "R", "S", "T", "U", "V", "W", "X", "Y", "Z" }

\* CONTRACT_MULTIPLIERS[baseSymbol] || 50
CONTRACT_MULTIPLIERS(base) ==
  CASE base = <<"E", "S">> -> 50
    [] base = <<"N", "Q">> -> 20
    [] base = <<"R", "T", "Y">> -> 50
    [] base = <<"G", "C">> -> 100
    [] base = <<"C", "L">> -> 1000
    [] base = <<"Z", "B">> -> 1000
    [] base = <<"Z", "N">> -> 1000
    [] base = <<"Y", "M">> -> 5
    [] base = <<"S", "I">> -> 5000
    [] base = <<"N", "G">> -> 10000
    [] OTHER -> 50

\* the match of /^([A-Z]+)/ : the longest prefix of upper-case letters
RECURSIVE UpperPrefix(_)
UpperPrefix(s) ==
  IF s = <<>> \/ Head(s) \notin UpperLetters
  THEN <<>>
  ELSE <<Head(s)>> \o UpperPrefix(Tail(s))

getBaseSymbol(symbol) ==
  IF symbol = <<>> THEN <<>>
  ELSE IF UpperPrefix(symbol) # <<>> THEN UpperPrefix(symbol) ELSE symbol

getMultiplier(symbol) == CONTRACT_MULTIPLIERS(getBaseSymbol(symbol))

\* the Order record loadOrdersFromCSV builds from one accepted row; the tag
\* of a row is its row number
MakeOrder(symbol, price, quantity, timestamp, row) ==
  [ timestamp |-> timestamp,
    symbol |-> symbol,
    baseSymbol |-> getBaseSymbol(symbol),
    price |-> price,
    quantity |-> quantity,
    tag |-> row,
    multiplier |-> getMultiplier(symbol) ]

VARIABLES
  orders,            \* the orders the for loop has taken so far, in order
  symbolPositions,   \* symbol -> [position, entries], for the symbols seen
  symbolKeys,        \* the keys of symbolPositions in insertion order
  trades,            \* the trades pushed so far
  tradeId,           \* the next trade id
  pc,                \* "loop" | "closeShort" | "closeLong" | "built" | "done"
                     \* | "rendered" | "parsed"
  remainingToClose,  \* of the closing order in progress
  qtyToClose,        \* of the closing order in progress
  openPositions,     \* buildTradesFromOrders' second result
  metrics,           \* calculateMetrics' result, None before it has run
  report,            \* generateReport's text: its lines, each a sequence of
                     \* the words between its white space
  parsed,            \* parseReport's result, None before it has run
  file,              \* the text of the selected file: its lines, each the
                     \* sequence of the values between its commas
  loaded,            \* how loadOrdersFromCSV's promise settled
  page,              \* Index's state: report, error, isProcessing
  calls              \* the callbacks processFile has called in this run

vars == << orders, symbolPositions, symbolKeys, trades, tradeId, pc,
           remainingToClose, qtyToClose, openPositions, metrics, report,
           parsed, file, loaded, page, calls >>

\* the value of a variable that holds no result yet
None == [ none |-> TRUE ]

\* a state variable of Index that holds null: the model keeps a value v of
\* such a variable as <<v>>
null == <<>>

\* Index's state after its three useState calls (lines 10-12)
InitialPage == [ report |-> null, error |-> null, isProcessing |-> FALSE ]

\* loadOrdersFromCSV's promise before it settles
Pending == [ state |-> "pending" ]

\* no file has been selected and processFile has not run
NoUpload ==
  /\ file = <<>>
  /\ loaded = Pending
  /\ page = InitialPage
  /\ calls = <<>>

\* the order the for loop is working on
order == orders[Len(orders)]

posData == symbolPositions[order.symbol]

Lot(qty, price, time, ord) ==
  [ qty |-> qty, price |-> price, time |-> time, order |-> ord ]

\* faulty variant of SetPos: the fields are assigned for every symbol
SetPos_All(sp, symbol, position, entries) ==
  [ s \in DOMAIN sp \cup {symbol} |->
      [ position |-> position, entries |-> entries ] ]

\* symbolPositions after assigning posData's fields for one symbol
SetPos(sp, symbol, position, entries) ==
  [ s \in DOMAIN sp \cup {symbol} |->
      IF s = symbol THEN [ position |-> position, entries |-> entries ]
      ELSE sp[s] ]

\* if (!symbolPositions[symbol]) symbolPositions[symbol] = {position: 0, entries: []}
InitSymbol(sp, symbol) ==
  IF symbol \in DOMAIN sp THEN sp ELSE SetPos(sp, symbol, 0, <<>>)

InitKeys(keys, sp, symbol) ==
  IF symbol \in DOMAIN sp THEN keys ELSE Append(keys, symbol)


(***************************************************************************)
(* The trades of buildTradesFromOrders.                                    *)
(***************************************************************************)
\* faulty variant of ShortTotalProfit: the long formula copied to the short
\* branch
ShortTotalProfit_AsLong(entryPrice, price, multiplier, closeQty) ==
  (price - entryPrice) * multiplier * closeQty

\* const totalProfit = (entryPrice - price) * multiplier * closeQty
ShortTotalProfit(entryPrice, price, multiplier, closeQty) ==
  (entryPrice - price) * multiplier * closeQty

\* const totalProfit = (price - entryPrice) * multiplier * closeQty
LongTotalProfit(entryPrice, price, multiplier, closeQty) ==
  (price - entryPrice) * multiplier * closeQty

\* faulty variant of TradeIdAfter: the id is used without being advanced
TradeIdAfter_Stuck(id) == id

\* tradeId++ leaves the next id
TradeIdAfter(id) == id + 1

\* faulty variant of ShortPercentGain: the entry price is not tested
ShortPercentGain_NoGuard(entryPrice, price) ==
  Div((entryPrice - price) * 100, entryPrice)

\* entryPrice > 0 ? ((entryPrice - price) / entryPrice) * 100 : 0 (line 422)
ShortPercentGain(entryPrice, price) ==
  IF entryPrice > 0 THEN Div((entryPrice - price) * 100, entryPrice) ELSE Num(0)

\* faulty variant of LongPercentGain: the entry price is not tested
LongPercentGain_NoGuard(entryPrice, price) ==
  Div((price - entryPrice) * 100, entryPrice)

\* entryPrice > 0 ? ((price - entryPrice) / entryPrice) * 100 : 0 (line 482)
LongPercentGain(entryPrice, price) ==
  IF entryPrice > 0 THEN Div((price - entryPrice) * 100, entryPrice) ELSE Num(0)

\* the time value of an invalid Date: getTime() is NaN, and no valid time
\* value of this model is negative
InvalidDate == 0 - 1

\* faulty variant of Duration: the exit time is subtracted from the entry time
Duration_Reversed(entryTime, exitTime) ==
  IF entryTime = InvalidDate \/ exitTime = InvalidDate THEN Div(0, 0)
  ELSE Div(entryTime - exitTime, 1000 * 60)

\* (timestamp.getTime() - entryTime.getTime()) / (1000 * 60), in minutes
Duration(entryTime, exitTime) ==
  IF entryTime = InvalidDate \/ exitTime = InvalidDate THEN Div(0, 0)
  ELSE Div(exitTime - entryTime, 1000 * 60)

\* the trade closing closeQty units of a short lot against buy order o
ShortTrade(id, o, lot, closeQty) ==
  [ tradeId |-> id,
    symbol |-> o.symbol,
    baseSymbol |-> o.baseSymbol,
    type |-> "future",
    position |-> "short",
    quantity |-> closeQty,
    entryTime |-> lot.time,
    exitTime |-> o.timestamp,
    entryPrice |-> lot.price,
    exitPrice |-> o.price,
    profit |-> ShortTotalProfit(lot.price, o.price, o.multiplier, closeQty),
    percentGain |-> ShortPercentGain(lot.price, o.price),
    size |-> Div(lot.price * o.multiplier * 100, CAPITAL_BASE),
    duration |-> Duration(lot.time, o.timestamp),
    entryTag |-> lot.order.tag,
    exitTag |-> o.tag ]

\* the trade closing closeQty units of a long lot against sell order o
LongTrade(id, o, lot, closeQty) ==
  [ tradeId |-> id,
    symbol |-> o.symbol,
    baseSymbol |-> o.baseSymbol,
    type |-> "future",
    position |-> "long",
    quantity |-> closeQty,
    entryTime |-> lot.time,
    exitTime |-> o.timestamp,
    entryPrice |-> lot.price,
    exitPrice |-> o.price,
    profit |-> LongTotalProfit(lot.price, o.price, o.multiplier, closeQty),
    percentGain |-> LongPercentGain(lot.price, o.price),
    size |-> Div(lot.price * o.multiplier * 100, CAPITAL_BASE),
    duration |-> Duration(lot.time, o.timestamp),
    entryTag |-> lot.order.tag,
    exitTag |-> o.tag ]

\* faulty variant of LongToClose: the order's quantity is not capped by the
\* position
LongToClose_Order(sellQty, position) == sellQty

\* faulty variant of LongToClose: the whole position is closed whatever the
\* order sells
LongToClose_Position(sellQty, position) == position

\* const remainingToClose = Math.min(sellQty, posData.position) (line 473)
LongToClose(sellQty, position) == Min(sellQty, position)

\* faulty variant of ShortCloseQty: Math.max for Math.min
ShortCloseQty_Max(toClose, entryQty) ==
  IF toClose < Abs(entryQty) THEN Abs(entryQty) ELSE toClose

\* const closeQty = Math.min(qtyToClose, Math.abs(entryQty))
ShortCloseQty(toClose, entryQty) == Min(toClose, Abs(entryQty))

\* faulty variant of LongCloseQty: the lot's quantity does not cap the close
LongCloseQty_NoMin(toClose, entryQty) == toClose

\* const closeQty = Math.min(qtyToClose, entryQty)
LongCloseQty(toClose, entryQty) == Min(toClose, entryQty)

\* faulty variant of ShortEntriesAfter: a partly closed lot keeps its quantity
ShortEntriesAfter_Keep(entries, closeQty) ==
  IF closeQty < Abs(entries[1].qty) THEN entries ELSE Tail(entries)

\* the entries after closeQty units of the first (short) lot are closed
ShortEntriesAfter(entries, closeQty) ==
  IF closeQty < Abs(entries[1].qty)
  THEN [ entries EXCEPT ![1].qty = entries[1].qty + closeQty ]
  ELSE Tail(entries)

\* faulty variant of LongEntriesAfter: a fully closed lot is taken off the
\* wrong end of the queue (pop for shift)
LongEntriesAfter_Pop(entries, closeQty) ==
  IF closeQty < entries[1].qty
  THEN [ entries EXCEPT ![1].qty = entries[1].qty - closeQty ]
  ELSE SubSeq(entries, 1, Len(entries) - 1)

\* faulty variant of LongEntriesAfter: the remainder of a partly closed lot
\* is put at the back of the queue
LongEntriesAfter_Back(entries, closeQty) ==
  IF closeQty < entries[1].qty
  THEN Append(Tail(entries), [ entries[1] EXCEPT !.qty = entries[1].qty - closeQty ])
  ELSE Tail(entries)

\* the entries after closeQty units of the first (long) lot are closed
LongEntriesAfter(entries, closeQty) ==
  IF closeQty < entries[1].qty
  THEN [ entries EXCEPT ![1].qty = entries[1].qty - closeQty ]
  ELSE Tail(entries)

(***************************************************************************)
(* The orders that reach the ledger: loadOrdersFromCSV keeps a row with    *)
(* price > 0 and quantity # 0 (line 356) and sorts the rows by timestamp   *)
(* (line 365).  The files of this specification trade one symbol and hold  *)
(* no two rows with the same timestamp.                                    *)
(***************************************************************************)
\* the rows of a file, before their place in the file is known
OrderRows ==
  { MakeOrder(s, p, q, 0, 0) : s \in Symbols, p \in Prices, q \in Quantities }

\* the orders the for loop may take next; none once the file is exhausted
NextOrders ==
  IF pc = "loop" /\ Len(orders) < MaxOrders
  THEN { [ r EXCEPT !.timestamp = Len(orders) + 1, !.tag = Len(orders) + 1 ] :
           r \in { x \in OrderRows :
                     orders = <<>> \/ x.symbol = orders[1].symbol } }
  ELSE {}

Init ==
  /\ orders = <<>>
  /\ symbolPositions = <<>>
  /\ symbolKeys = <<>>
  /\ trades = <<>>
  /\ tradeId = 1
  /\ pc = "loop"
  /\ remainingToClose = 0
  /\ qtyToClose = 0
  /\ openPositions = <<>>
  /\ metrics = None
  /\ report = <<>>
  /\ parsed = None
  /\ NoUpload

\* the for loop takes the next order (lines 398-409)
Take(o) ==
  /\ pc = "loop"
  /\ orders' = Append(orders, o)
  /\ symbolKeys' = InitKeys(symbolKeys, symbolPositions, o.symbol)

PositionOf(o) == InitSymbol(symbolPositions, o.symbol)[o.symbol].position

EntriesOf(o) == InitSymbol(symbolPositions, o.symbol)[o.symbol].entries

\* buy while long or flat (lines 465-468)
OpenLong(o) ==
  /\ Take(o)
  /\ o.quantity > 0
  /\ ~(PositionOf(o) < 0)
  /\ symbolPositions' =
       SetPos(symbolPositions, o.symbol, PositionOf(o) + o.quantity,
              Append(EntriesOf(o), Lot(o.quantity, o.price, o.timestamp, o)))
  /\ UNCHANGED << file, loaded, page, calls,
                  trades, tradeId, pc, remainingToClose, qtyToClose,
                  openPositions, metrics,
                  report, parsed >>

\* buy while short: enter the closing loop (lines 412-414)
BeginCloseShort(o) ==
  /\ Take(o)
  /\ o.quantity > 0
  /\ PositionOf(o) < 0
  /\ remainingToClose' = Min(o.quantity, Abs(PositionOf(o)))
  /\ qtyToClose' = Min(o.quantity, Abs(PositionOf(o)))
  /\ pc' = "closeShort"
  /\ symbolPositions' = InitSymbol(symbolPositions, o.symbol)
  /\ UNCHANGED << file, loaded, page, calls,
                  trades, tradeId, openPositions, metrics,
                  report, parsed >>

\* one iteration of the while loop closing short lots (lines 416-455)
CloseShortStep ==
  /\ pc = "closeShort"
  /\ qtyToClose > 0 /\ Len(posData.entries) > 0
  /\ LET closeQty == ShortCloseQty(qtyToClose, posData.entries[1].qty)
     IN /\ trades' = Append(trades,
                       ShortTrade(tradeId, order, posData.entries[1], closeQty))
        /\ tradeId' = TradeIdAfter(tradeId)
        /\ symbolPositions' =
             SetPos(symbolPositions, order.symbol, posData.position,
                    ShortEntriesAfter(posData.entries, closeQty))
        /\ qtyToClose' = qtyToClose - closeQty
  /\ UNCHANGED << file, loaded, page, calls,
                  orders, symbolKeys, pc, remainingToClose, openPositions,
                  metrics,
                  report, parsed >>

\* faulty variant of EntriesAfterShortClose: the lot of a flip to long is
\* pushed with a negative quantity
EntriesAfterShortClose_Negative(entries, o, remainingQty) ==
  IF remainingQty > 0
  THEN Append(entries, Lot(0 - remainingQty, o.price, o.timestamp, o))
  ELSE entries

\* the entries after a buy order has closed what it could (lines 460-464)
EntriesAfterShortClose(entries, o, remainingQty) ==
  IF remainingQty > 0
  THEN Append(entries, Lot(remainingQty, o.price, o.timestamp, o))
  ELSE entries

\* the while loop is left; position update and the flip (lines 457-464)
CloseShortExit ==
  /\ pc = "closeShort"
  /\ ~(qtyToClose > 0 /\ Len(posData.entries) > 0)
  /\ LET remainingQty == order.quantity - remainingToClose
     IN symbolPositions' =
          SetPos(symbolPositions, order.symbol,
                 IF remainingQty > 0
                 THEN posData.position + remainingToClose + remainingQty
                 ELSE posData.position + remainingToClose,
                 EntriesAfterShortClose(posData.entries, order, remainingQty))
  /\ pc' = "loop"
  /\ UNCHANGED << file, loaded, page, calls,
                  orders, symbolKeys, trades, tradeId, remainingToClose,
                  qtyToClose, openPositions, metrics,
                  report, parsed >>

\* sell while short or flat (lines 525-528)
OpenShort(o) ==
  /\ Take(o)
  /\ ~(o.quantity > 0)
  /\ ~(PositionOf(o) > 0)
  /\ symbolPositions' =
       SetPos(symbolPositions, o.symbol, PositionOf(o) - Abs(o.quantity),
              Append(EntriesOf(o),
                     Lot(0 - Abs(o.quantity), o.price, o.timestamp, o)))
  /\ UNCHANGED << file, loaded, page, calls,
                  trades, tradeId, pc, remainingToClose, qtyToClose,
                  openPositions, metrics,
                  report, parsed >>

\* sell while long: enter the closing loop (lines 470-474)
BeginCloseLong(o) ==
  /\ Take(o)
  /\ ~(o.quantity > 0)
  /\ PositionOf(o) > 0
  /\ remainingToClose' = LongToClose(Abs(o.quantity), PositionOf(o))
  /\ qtyToClose' = LongToClose(Abs(o.quantity), PositionOf(o))
  /\ pc' = "closeLong"
  /\ symbolPositions' = InitSymbol(symbolPositions, o.symbol)
  /\ UNCHANGED << file, loaded, page, calls,
                  trades, tradeId, openPositions, metrics,
                  report, parsed >>

\* one iteration of the while loop closing long lots (lines 476-515)
CloseLongStep ==
  /\ pc = "closeLong"
  /\ qtyToClose > 0 /\ Len(posData.entries) > 0
  /\ LET closeQty == LongCloseQty(qtyToClose, posData.entries[1].qty)
     IN /\ trades' = Append(trades,
                       LongTrade(tradeId, order, posData.entries[1], closeQty))
        /\ tradeId' = TradeIdAfter(tradeId)
        /\ symbolPositions' =
             SetPos(symbolPositions, order.symbol, posData.position,
                    LongEntriesAfter(posData.entries, closeQty))
        /\ qtyToClose' = qtyToClose - closeQty
  /\ UNCHANGED << file, loaded, page, calls,
                  orders, symbolKeys, pc, remainingToClose, openPositions,
                  metrics,
                  report, parsed >>

\* faulty variant of EntriesAfterLongClose: the lot of a flip to short is
\* pushed with a positive quantity
EntriesAfterLongClose_Sign(entries, o, remainingQty) ==
  IF remainingQty > 0
  THEN Append(entries, Lot(remainingQty, o.price, o.timestamp, o))
  ELSE entries

\* faulty variant of EntriesAfterLongClose: the leftover of a flip opens no lot
EntriesAfterLongClose_NoFlip(entries, o, remainingQty) == entries

\* the entries after a sell order has closed what it could (lines 520-524)
EntriesAfterLongClose(entries, o, remainingQty) ==
  IF remainingQty > 0
  THEN Append(entries, Lot(0 - remainingQty, o.price, o.timestamp, o))
  ELSE entries

\* the while loop is left; position update and the flip (lines 517-524)
CloseLongExit ==
  /\ pc = "closeLong"
  /\ ~(qtyToClose > 0 /\ Len(posData.entries) > 0)
  /\ LET remainingQty == Abs(order.quantity) - remainingToClose
     IN symbolPositions' =
          SetPos(symbolPositions, order.symbol,
                 IF remainingQty > 0
                 THEN posData.position - remainingToClose - remainingQty
                 ELSE posData.position - remainingToClose,
                 EntriesAfterLongClose(posData.entries, order, remainingQty))
  /\ pc' = "loop"
  /\ UNCHANGED << file, loaded, page, calls,
                  orders, symbolKeys, trades, tradeId, remainingToClose,
                  qtyToClose, openPositions, metrics,
                  report, parsed >>


(***************************************************************************)
(* The open positions (lines 532-556): Object.entries walks the symbols in *)
(* insertion order.                                                        *)
(***************************************************************************)
RECURSIVE SumAbsQty(_)
SumAbsQty(entries) ==
  IF entries = <<>> THEN 0
  ELSE Abs(Head(entries).qty) + SumAbsQty(Tail(entries))

\* faulty variant of SumValue: the prices are summed without their quantities
RECURSIVE SumValue_Unweighted(_)
SumValue_Unweighted(entries) ==
  IF entries = <<>> THEN 0
  ELSE Head(entries).price + SumValue_Unweighted(Tail(entries))

RECURSIVE SumValue(_)
SumValue(entries) ==
  IF entries = <<>> THEN 0
  ELSE Abs(Head(entries).qty) * Head(entries).price + SumValue(Tail(entries))

\* faulty variant of PositionType: the sign of the net position is not read
PositionType_Long(netPosition) == "long"

\* const positionType = netPosition > 0 ? 'long' : 'short' (line 541)
PositionType(netPosition) == IF netPosition > 0 THEN "long" ELSE "short"

OpenPosition(symbol, pd) ==
  [ symbol |-> symbol,
    type |-> "future",
    position |-> PositionType(pd.position),
    quantity |-> Abs(pd.position),
    avgPrice |-> Div(SumValue(pd.entries), SumAbsQty(pd.entries)),
    costBasis |-> SumValue(pd.entries),
    size |-> Div(SumValue(pd.entries) * 100, CAPITAL_BASE),
    firstEntry |-> pd.entries[1].time ]

RECURSIVE OpenPositionsOf(_, _)
OpenPositionsOf(keys, sp) ==
  IF keys = <<>> THEN <<>>
  ELSE IF Len(sp[Head(keys)].entries) > 0 /\ SumAbsQty(sp[Head(keys)].entries) > 0
       THEN <<OpenPosition(Head(keys), sp[Head(keys)])>>
              \o OpenPositionsOf(Tail(keys), sp)
       ELSE OpenPositionsOf(Tail(keys), sp)

\* the for loop is over: buildTradesFromOrders returns (lines 532-564)
Finish ==
  /\ pc = "loop"
  /\ orders # <<>>
  /\ openPositions' = OpenPositionsOf(symbolKeys, symbolPositions)
  /\ pc' = "built"
  /\ UNCHANGED << file, loaded, page, calls,
                  orders, symbolPositions, symbolKeys, trades, tradeId,
                  remainingToClose, qtyToClose, metrics,
                  report, parsed >>

(***************************************************************************)
(* calculateMetrics (lines 567-620).                                       *)
(***************************************************************************)
RECURSIVE SumProfit(_)
SumProfit(ts) ==
  IF ts = <<>> THEN 0 ELSE Head(ts).profit + SumProfit(Tail(ts))

RECURSIVE SumPercentGain(_)
SumPercentGain(ts) ==
  IF ts = <<>> THEN Num(0)
  ELSE RatAdd(Head(ts).percentGain, SumPercentGain(Tail(ts)))

RECURSIVE SumSize(_)
SumSize(ts) ==
  IF ts = <<>> THEN Num(0) ELSE RatAdd(Head(ts).size, SumSize(Tail(ts)))

IsWin(t) == t.profit > 0

\* faulty variant of IsLoss: a trade of profit 0 is counted as a loss
IsLoss_OrEven(t) == t.profit <= 0

IsLoss(t) == t.profit < 0

IsLong(t) == t.position = "long"

IsShort(t) == t.position = "short"

\* faulty variant of ProfitFactor: 0 where there is no loss
ProfitFactor_Zero(totalGains, totalLosses) ==
  IF totalLosses > 0 THEN Div(totalGains, totalLosses) ELSE Num(0)

\* totalLosses > 0 ? totalGains / totalLosses : Number.POSITIVE_INFINITY
ProfitFactor(totalGains, totalLosses) ==
  IF totalLosses > 0 THEN Div(totalGains, totalLosses) ELSE POSITIVE_INFINITY

EmptyMetrics ==
  [ totalTrades |-> 0, winningTrades |-> 0, losingTrades |-> 0,
    winPercentage |-> Num(0), avgGain |-> Num(0), avgLoss |-> Num(0),
    totalProfit |-> 0, profitFactor |-> Num(0), avgSize |-> Num(0),
    longTrades |-> 0, shortTrades |-> 0, longProfit |-> 0, shortProfit |-> 0 ]

\* the metrics of a non-empty trade list (lines 586-619)
MetricsOf(ts) ==
  LET winningTrades == SelectSeq(ts, IsWin)
      losingTrades == SelectSeq(ts, IsLoss)
      longTrades == SelectSeq(ts, IsLong)
      shortTrades == SelectSeq(ts, IsShort)
      totalGains == SumProfit(winningTrades)
      totalLosses == Abs(SumProfit(losingTrades))
  IN [ totalTrades |-> Len(ts),
       winningTrades |-> Len(winningTrades),
       losingTrades |-> Len(losingTrades),
       winPercentage |-> Div(Len(winningTrades) * 100, Len(ts)),
       avgGain |-> IF Len(winningTrades) > 0
                   THEN RatDivInt(SumPercentGain(winningTrades),
                                  Len(winningTrades))
                   ELSE Num(0),
       avgLoss |-> IF Len(losingTrades) > 0
                   THEN RatAbs(RatDivInt(SumPercentGain(losingTrades),
                                         Len(losingTrades)))
                   ELSE Num(0),
       totalProfit |-> SumProfit(ts),
       profitFactor |-> ProfitFactor(totalGains, totalLosses),
       avgSize |-> RatDivInt(SumSize(ts), Len(ts)),
       longTrades |-> Len(longTrades),
       shortTrades |-> Len(shortTrades),
       longProfit |-> SumProfit(longTrades),
       shortProfit |-> SumProfit(shortTrades) ]

\* faulty variant of calculateMetrics: no early return for the empty list
calculateMetrics_NoGuard(ts) == MetricsOf(ts)

\* if (trades.length === 0) return the all-zero metrics (lines 568-584)
calculateMetrics(ts) ==
  IF Len(ts) = 0 THEN EmptyMetrics ELSE MetricsOf(ts)

\* processCSV runs calculateMetrics on the realized trades (line 837)
CalcMetrics ==
  /\ pc = "built"
  /\ metrics' = calculateMetrics(trades)
  /\ pc' = "done"
  /\ UNCHANGED << file, loaded, page, calls,
                  orders, symbolPositions, symbolKeys, trades, tradeId,
                  remainingToClose, qtyToClose, openPositions,
                  report, parsed >>

Next ==
  \/ \E o \in NextOrders : OpenLong(o)
  \/ \E o \in NextOrders : BeginCloseShort(o)
  \/ CloseShortStep
  \/ CloseShortExit
  \/ \E o \in NextOrders : OpenShort(o)
  \/ \E o \in NextOrders : BeginCloseLong(o)
  \/ CloseLongStep
  \/ CloseLongExit
  \/ Finish

Spec == Init /\ [][Next]_vars

(***************************************************************************)
(* The ledger on files that mix the symbols, every fill at one price.      *)
(***************************************************************************)
MixedPrices == { 100 }

MixedOrders ==
  IF pc = "loop" /\ Len(orders) < MaxOrders
  THEN { [ r EXCEPT !.timestamp = Len(orders) + 1, !.tag = Len(orders) + 1 ] :
           r \in { x \in OrderRows : x.price \in MixedPrices } }
  ELSE {}

NextSymbols ==
  \/ \E o \in MixedOrders : OpenLong(o)
  \/ \E o \in MixedOrders : BeginCloseShort(o)
  \/ CloseShortStep
  \/ CloseShortExit
  \/ \E o \in MixedOrders : OpenShort(o)
  \/ \E o \in MixedOrders : BeginCloseLong(o)
  \/ CloseLongStep
  \/ CloseLongExit
  \/ Finish

SpecSymbols == Init /\ [][NextSymbols]_vars

(***************************************************************************)
(* The ledger as one synchronous call: once buildTradesFromOrders is       *)
(* entered every statement of it is executed, none is postponed for ever.  *)
(* The fills are of one symbol at one price.                               *)
(***************************************************************************)
QueueOrders ==
  { o \in MixedOrders : Len(orders) > 0 => o.symbol = orders[1].symbol }

NextQueue ==
  \/ \E o \in QueueOrders : OpenLong(o)
  \/ \E o \in QueueOrders : BeginCloseShort(o)
  \/ CloseShortStep
  \/ CloseShortExit
  \/ \E o \in QueueOrders : OpenShort(o)
  \/ \E o \in QueueOrders : BeginCloseLong(o)
  \/ CloseLongStep
  \/ CloseLongExit
  \/ Finish

ledgerProgress == << pc, orders, trades >>

SpecQueueFair == Init /\ [][NextQueue]_vars /\ WF_ledgerProgress(NextQueue)

(***************************************************************************)
(* buildTradesFromOrders called on orders of its own, outside the loader:  *)
(* the price of a fill may be 0.                                           *)
(***************************************************************************)
ZeroPrices == { 0, 100 }

ZeroPriceRows ==
  { MakeOrder(s, p, q, 0, 0) :
      s \in Symbols, p \in ZeroPrices, q \in Quantities }

ZeroPriceOrders ==
  IF pc = "loop" /\ Len(orders) < MaxOrders
  THEN { [ r EXCEPT !.timestamp = Len(orders) + 1, !.tag = Len(orders) + 1 ] :
           r \in { x \in ZeroPriceRows :
                     orders = <<>> \/ x.symbol = orders[1].symbol } }
  ELSE {}

NextZeroPrice ==
  \/ \E o \in ZeroPriceOrders : OpenLong(o)
  \/ \E o \in ZeroPriceOrders : BeginCloseShort(o)
  \/ CloseShortStep
  \/ CloseShortExit
  \/ \E o \in ZeroPriceOrders : OpenShort(o)
  \/ \E o \in ZeroPriceOrders : BeginCloseLong(o)
  \/ CloseLongStep
  \/ CloseLongExit
  \/ Finish

SpecZeroPrice == Init /\ [][NextZeroPrice]_vars

(***************************************************************************)
(* calculateMetrics on its own: the trade list is any list of at most      *)
(* MaxTrades one-unit round trips of a YM contract entered at 100, each    *)
(* one built as the ledger builds it.                                      *)
(***************************************************************************)
SampleSymbol == <<"Y", "M", "2", "5">>

SampleExitPrices == { 90, 95, 100, 120, 140 }

SampleSides == { "long", "short" }

\* the trade of a buy at 100 closed by a sell at exit (long), or of a sell
\* at 100 closed by a buy at exit (short)
SampleTrade(side, exit, id) ==
  IF side = "long"
  THEN LongTrade(id, MakeOrder(SampleSymbol, exit, 0 - 1, 2, 2),
                 Lot(1, 100, 1, MakeOrder(SampleSymbol, 100, 1, 1, 1)), 1)
  ELSE ShortTrade(id, MakeOrder(SampleSymbol, exit, 1, 2, 2),
                  Lot(0 - 1, 100, 1, MakeOrder(SampleSymbol, 100, 0 - 1, 1, 1)), 1)

SampleLists ==
  UNION { [ 1..n -> SampleSides \X SampleExitPrices ] : n \in 0..MaxTrades }

TradesOf(l) == [ i \in 1..Len(l) |-> SampleTrade(l[i][1], l[i][2], i) ]

MetricsInit ==
  /\ orders = <<>>
  /\ symbolPositions = <<>>
  /\ symbolKeys = <<>>
  /\ trades \in { TradesOf(l) : l \in SampleLists }
  /\ tradeId = Len(trades) + 1
  /\ pc = "built"
  /\ remainingToClose = 0
  /\ qtyToClose = 0
  /\ openPositions = <<>>
  /\ metrics = None
  /\ report = <<>>
  /\ parsed = None
  /\ NoUpload

MetricsNext == CalcMetrics

SpecMetrics == MetricsInit /\ [][MetricsNext]_vars

(***************************************************************************)
(* The report text.  generateReport joins its lines with "\n"; parseReport *)
(* splits the text at "\n" and a line at its white space.  A line is kept  *)
(* as the sequence of its words, the empty line as <<>>.  A word is a      *)
(* record that holds what was formatted and how.                           *)
(***************************************************************************)
\* a literal word of the template
Word(s) == [ kind |-> "word", word |-> s ]

Words(ss) == [ i \in 1..Len(ss) |-> Word(ss[i]) ]

\* `${pre}${n}${post}` : n.toString() between two literals
IntWord(pre, n, post) ==
  [ kind |-> "int", pre |-> pre, int |-> n, post |-> post ]

RECURSIVE Pow10(_)
Pow10(d) == IF d = 0 THEN 1 ELSE 10 * Pow10(d - 1)

\* faulty variant of toFixed: a value that is no number prints as 0
toFixed_Zero(x, digits) ==
  [ negative |-> x[1] < 0,
    scaled |-> IF x[2] = 0 THEN 0
               ELSE (2 * Abs(x[1]) * Pow10(digits) + x[2]) \div (2 * x[2]),
    digits |-> digits ]

\* x.toFixed(digits): the decimal with that many digits nearest to x, the
\* larger one of two nearest; a value that is no number prints its name
toFixed(x, digits) ==
  IF x[2] = 0
  THEN [ text |-> IF x[1] > 0 THEN "Infinity"
                  ELSE IF x[1] < 0 THEN "-Infinity" ELSE "NaN" ]
  ELSE [ negative |-> x[1] < 0,
         scaled |-> (2 * Abs(x[1]) * Pow10(digits) + x[2]) \div (2 * x[2]),
         digits |-> digits ]

\* `${pre}${x.toFixed(digits)}${post}`
FixedWord(pre, x, digits, post) ==
  [ kind |-> "fixed", pre |-> pre, fixed |-> toFixed(x, digits), post |-> post ]

\* d.toISOString().slice(0, 19).replace('T', ' ') : the day and the time of
\* day to the second, two words
TimeWords(t) ==
  << [ kind |-> "date", day |-> t \div 86400000 ],
     [ kind |-> "time", second |-> (t % 86400000) \div 1000 ] >>

\* a value printed by toLocaleString(): the text depends on the locale
LocaleWord(pre, v) == [ kind |-> "locale", pre |-> pre, value |-> v ]

\* "=".repeat(n), "-".repeat(n)
Rule(c, n) == [ kind |-> "rule", char |-> c, length |-> n ]

\* the words of a string of characters: its maximal runs without a space
RECURSIVE Pieces(_, _)
Pieces(chars, run) ==
  IF chars = <<>> THEN (IF run = <<>> THEN <<>> ELSE <<run>>)
  ELSE IF Head(chars) = " "
       THEN (IF run = <<>> THEN <<>> ELSE <<run>>) \o Pieces(Tail(chars), <<>>)
       ELSE Pieces(Tail(chars), Append(run, Head(chars)))

CharWords(chars) ==
  LET ps == Pieces(chars, <<>>)
  IN [ i \in 1..Len(ps) |-> [ kind |-> "chars", chars |-> ps[i] ] ]

(***************************************************************************)
(* The order of strings.  CodeUnits lists the characters of the model in   *)
(* the order of their UTF-16 code units ("[object Object]" stands at the   *)
(* place of its first character).  localeCompare orders the characters of  *)
(* symbols (space, digits, upper-case letters) the same way.               *)
(***************************************************************************)
CodeUnits ==
  << " ", ",", "0", "1", "2", "3", "4", "5", "6", "7", "8", "9",
     "A", "B", "C", "D", "E", "F", "G", "H", "I", "J", "K", "L", "M",
     "N", "O", "P", "Q", "R", "S", "T", "U", "V", "W", "X", "Y", "Z",
     "[object Object]" >>

CodeUnit(c) == CHOOSE i \in 1..Len(CodeUnits) : CodeUnits[i] = c

\* a < b in the order of code units, a proper prefix before its extensions
RECURSIVE CodeUnitLess(_, _)
CodeUnitLess(a, b) ==
  IF b = <<>> THEN FALSE
  ELSE IF a = <<>> THEN TRUE
  ELSE IF Head(a) = Head(b) THEN CodeUnitLess(Tail(a), Tail(b))
  ELSE CodeUnit(Head(a)) < CodeUnit(Head(b))

\* a.localeCompare(b) < 0
LocaleLess(a, b) == CodeUnitLess(a, b)

(***************************************************************************)
(* generateReport (lines 622-816).                                         *)
(***************************************************************************)
\* faulty variant of SortBySymbol: the positions are left as they came
SortBySymbol_None(ops) == ops

\* openPositions.sort((a, b) => a.symbol.localeCompare(b.symbol)) : the
\* array after the call (line 706); the symbols of the positions differ
SortBySymbol(ops) ==
  [ i \in 1..Len(ops) |->
      ops[CHOOSE j \in 1..Len(ops) :
            Cardinality({ k \in 1..Len(ops) :
                            LocaleLess(ops[k].symbol, ops[j].symbol) }) = i - 1] ]

\* the keys of symbolStats, in the order the for loop adds them (726-732)
RECURSIVE ProductKeys(_, _)
ProductKeys(ts, keys) ==
  IF ts = <<>> THEN keys
  ELSE ProductKeys(Tail(ts),
                   IF \E i \in 1..Len(keys) : keys[i] = Head(ts).baseSymbol
                   THEN keys
                   ELSE Append(keys, Head(ts).baseSymbol))

\* String([a, b, ...]) of an array of n trades: n - 1 commas between the n
\* strings of its elements
RECURSIVE ObjectList(_)
ObjectList(n) ==
  IF n = 1 THEN <<"[object Object]">>
  ELSE <<"[object Object]", ",">> \o ObjectList(n - 1)

\* String([key, symbolTrades]), the string the default sort compares
EntryString(key, ts) ==
  key \o <<",">>
      \o ObjectList(Len(SelectSeq(ts, LAMBDA t : t.baseSymbol = key)))

\* the keys in the order of Object.entries(symbolStats).sort() (line 741)
SortedProductKeys(ts) ==
  LET keys == ProductKeys(ts, <<>>)
      strings == [ k \in 1..Len(keys) |-> EntryString(keys[k], ts) ]
  IN [ i \in 1..Len(keys) |->
         keys[CHOOSE j \in 1..Len(keys) :
                Cardinality({ k \in 1..Len(keys) :
                                CodeUnitLess(strings[k], strings[j]) })
                  = i - 1] ]

\* lines 626-632
HeaderLines(now) ==
  << <<Rule("=", 80)>>,
     Words(<<"FUTURES", "TRADING", "PERFORMANCE", "REPORT">>),
     Words(<<"Generated", "on:">>) \o <<LocaleWord("", now)>>,
     <<Rule("=", 80)>>,
     <<>> >>

\* lines 635-648
OverallLines(m) ==
  << Words(<<"OVERALL", "PERFORMANCE">>),
     <<Rule("-", 60)>>,
     Words(<<"Total", "Trades:">>) \o <<IntWord("", m.totalTrades, "")>>,
     Words(<<"Winning", "Trades:">>) \o <<IntWord("", m.winningTrades, "")>>,
     Words(<<"Losing", "Trades:">>) \o <<IntWord("", m.losingTrades, "")>>,
     Words(<<"Win", "Rate:">>) \o <<FixedWord("", m.winPercentage, 1, "%")>>,
     Words(<<"Average", "Gain:">>) \o <<FixedWord("", m.avgGain, 2, "%")>>,
     Words(<<"Average", "Loss:">>) \o <<FixedWord("", m.avgLoss, 2, "%")>>,
     Words(<<"Total", "P/L:">>)
       \o <<FixedWord("$", Num(m.totalProfit), 2, "")>>,
     Words(<<"Profit", "Factor:">>) \o <<FixedWord("", m.profitFactor, 2, "")>>,
     Words(<<"Average", "Size:">>) \o <<FixedWord("", m.avgSize, 2, "%")>>
       \o Words(<<"of", "capital">>),
     <<>> >>

\* lines 651-659
BreakdownLines(m) ==
  << Words(<<"POSITION", "BREAKDOWN">>),
     Words(<<"Long", "Trades:">>) \o <<IntWord("", m.longTrades, "")>>,
     Words(<<"Short", "Trades:">>) \o <<IntWord("", m.shortTrades, "")>>,
     Words(<<"Long", "P/L:">>) \o <<FixedWord("$", Num(m.longProfit), 2, "")>>,
     Words(<<"Short", "P/L:">>) \o <<FixedWord("$", Num(m.shortProfit), 2, "")>>,
     <<Rule("-", 60)>>,
     <<>> >>

\* the line of one trade (lines 670-692): twelve padded columns joined by
\* a space
TradeRow(t) ==
  <<IntWord("", t.tradeId, "")>>
    \o CharWords(t.symbol)
    \o Words(<<t.type, t.position>>)
    \o TimeWords(t.entryTime)
    \o TimeWords(t.exitTime)
    \o << IntWord("", t.quantity, ""),
          FixedWord("$", Num(t.entryPrice), 2, ""),
          FixedWord("$", Num(t.exitPrice), 2, ""),
          FixedWord("$", Num(t.profit), 2, ""),
          FixedWord("", t.percentGain, 1, "%"),
          FixedWord("", t.size, 1, "%") >>

\* faulty variant of HasTrades: the trade tables are written for any list
HasTrades_Always(ts) == TRUE

\* if (trades.length > 0), the guard of the two trade tables (662, 724)
HasTrades(ts) == Len(ts) > 0

\* lines 662-695
RealizedLines(ts) ==
  IF HasTrades(ts)
  THEN << Words(<<"REALIZED", "TRADES">>) \o <<IntWord("(", Len(ts), ")")>>,
          <<Rule("-", 130)>>,
          Words(<<"ID", "Symbol", "Type", "Pos", "Entry", "Time", "Exit",
                  "Time", "Qty", "Entry", "Exit", "Profit", "Gain", "%",
                  "Size", "%">>),
          <<Rule("-", 130)>> >>
         \o [ i \in 1..Len(ts) |-> TradeRow(ts[i]) ]
         \o << <<>> >>
  ELSE <<>>

\* the line of one open position (lines 707-715)
OpenRow(pos) ==
  CharWords(pos.symbol)
    \o Words(<<pos.type, pos.position>>)
    \o << IntWord("", pos.quantity, ""),
          FixedWord("$", pos.avgPrice, 2, ""),
          FixedWord("$", Num(pos.costBasis), 2, ""),
          FixedWord("", pos.size, 1, "%") >>

\* lines 698-721, written from the sorted array
OpenLines(ops) ==
  IF Len(ops) > 0
  THEN << Words(<<"OPEN", "POSITIONS">>) \o <<IntWord("(", Len(ops), ")")>>,
          <<Rule("-", 80)>>,
          Words(<<"Symbol", "Type", "Pos", "Qty", "Price", "Cost", "Basis",
                  "Size", "%">>),
          <<Rule("-", 80)>> >>
         \o (LET sorted == SortBySymbol(ops)
             IN [ i \in 1..Len(sorted) |-> OpenRow(sorted[i]) ])
         \o << <<>> >>
  ELSE <<>>

\* the line of one product (lines 741-758)
ProductRow(key, ts) ==
  LET symbolTrades == SelectSeq(ts, LAMBDA t : t.baseSymbol = key)
      numTrades == Len(symbolTrades)
      wins == Len(SelectSeq(symbolTrades, IsWin))
      winPct == IF numTrades > 0 THEN Div(wins * 100, numTrades) ELSE Num(0)
      totalPnl == SumProfit(symbolTrades)
      avgPct == IF numTrades > 0
                THEN RatDivInt(SumPercentGain(symbolTrades), numTrades)
                ELSE Num(0)
  IN CharWords(key)
       \o << Word("future"),
             IntWord("", numTrades, ""),
             FixedWord("", winPct, 1, "%"),
             FixedWord("$", Num(totalPnl), 2, ""),
             FixedWord("", avgPct, 2, "%") >>

\* lines 724-761
ProductLines(ts) ==
  IF HasTrades(ts)
  THEN << Words(<<"PERFORMANCE", "BY", "PRODUCT">>),
          <<Rule("-", 70)>>,
          Words(<<"Symbol", "Type", "Trades", "Win", "%", "Total", "P/L",
                  "Avg", "%">>),
          <<Rule("-", 70)>> >>
         \o (LET keys == SortedProductKeys(ts)
             IN [ i \in 1..Len(keys) |-> ProductRow(keys[i], ts) ])
         \o << <<>> >>
  ELSE <<>>

\* the line of one side (lines 772-786 and 790-804)
SideRow(label, side, count, profit, ts) ==
  LET sideTrades == SelectSeq(ts, LAMBDA t : t.position = side)
      wins == Len(SelectSeq(sideTrades, IsWin))
  IN << Word(label),
        IntWord("", count, ""),
        FixedWord("", Div(wins * 100, Len(sideTrades)), 1, "%"),
        FixedWord("$", Num(profit), 2, ""),
        FixedWord("", RatDivInt(SumPercentGain(sideTrades), Len(sideTrades)),
                  2, "%") >>

\* lines 764-807
SideLines(ts, m) ==
  << Words(<<"PERFORMANCE", "BY", "POSITION", "TYPE">>),
     <<Rule("-", 70)>>,
     Words(<<"Position", "Trades", "Win", "%", "Total", "P/L", "Avg", "%">>),
     <<Rule("-", 70)>> >>
    \o (IF m.longTrades > 0
        THEN <<SideRow("Long", "long", m.longTrades, m.longProfit, ts)>>
        ELSE <<>>)
    \o (IF m.shortTrades > 0
        THEN <<SideRow("Short", "short", m.shortTrades, m.shortProfit, ts)>>
        ELSE <<>>)
    \o << <<>> >>

\* lines 810-813
FooterLines(csvFileName) ==
  << <<Word("Source:"), Word(csvFileName)>>,
     Words(<<"Capital", "base:">>) \o <<LocaleWord("$", CAPITAL_BASE)>> >>

\* the lines of the text generateReport returns when the clock reads now
generateReport(ts, ops, m, csvFileName, now) ==
  HeaderLines(now) \o OverallLines(m) \o BreakdownLines(m)
    \o RealizedLines(ts) \o OpenLines(ops) \o ProductLines(ts)
    \o SideLines(ts, m) \o FooterLines(csvFileName)

(***************************************************************************)
(* parseReport (FileUpload.tsx, lines 404-517).  Indices of lines and of   *)
(* the parts of a line count from 0, as in the code.                       *)
(***************************************************************************)
\* the words of the phrase stand at place k of the line
PhraseAt(line, k, phrase) ==
  /\ k + Len(phrase) - 1 <= Len(line)
  /\ \A j \in 1..Len(phrase) :
       /\ line[k + j - 1].kind = "word"
       /\ line[k + j - 1].word = phrase[j]

\* line.includes(phrase), phrase a run of words of the template
Includes(line, phrase) == \E k \in 1..Len(line) : PhraseAt(line, k, phrase)

\* line.includes('---')
IncludesDashes(line) ==
  \E i \in 1..Len(line) :
    \/ /\ line[i].kind = "rule"
       /\ line[i].char = "-" /\ line[i].length >= 3
    \/ /\ line[i].kind = "chars"
       /\ \E k \in 1..(Len(line[i].chars) - 2) :
            \A d \in 0..2 : line[i].chars[k + d] = "-"

\* lines.findIndex(line => line.includes(phrase)), -1 when there is none
FindIndex(lines, phrase) ==
  LET found == { i \in 1..Len(lines) : Includes(lines[i], phrase) }
  IN IF found = {} THEN 0 - 1
     ELSE (CHOOSE i \in found : \A j \in found : i <= j) - 1

\* lines[i]?.split(label)[1]?.trim() || '' : the words after the label,
\* nothing when the line or the label is missing
AfterLabel(lines, i, label) ==
  IF i + 1 \in 1..Len(lines) /\ Includes(lines[i + 1], label)
  THEN LET line == lines[i + 1]
           at == CHOOSE k \in 1..Len(line) :
                   /\ PhraseAt(line, k, label)
                   /\ \A h \in 1..(k - 1) : ~PhraseAt(line, h, label)
       IN SubSeq(line, at + Len(label), Len(line))
  ELSE <<>>

\* parseInt(text || '0')
ParseInt(words) ==
  IF words = <<>> THEN 0
  ELSE IF words[1].kind = "int" /\ words[1].pre = "" THEN words[1].int
  ELSE [ kind |-> "NaN" ]

\* parts[i], undefined past the end of the array
Part(parts, i) ==
  IF i < Len(parts) THEN parts[i + 1] ELSE [ kind |-> "undefined" ]

\* the lines a for loop reads from index start up to the first line on
\* which it breaks: an empty line, a line with '---', a line with one of
\* the stop phrases
RowsFrom(lines, start, stops) ==
  LET breaks == { i \in start..(Len(lines) - 1) :
                    \/ lines[i + 1] = <<>>
                    \/ IncludesDashes(lines[i + 1])
                    \/ \E p \in stops : Includes(lines[i + 1], p) }
      end == IF breaks = {} THEN Len(lines)
             ELSE CHOOSE i \in breaks : \A j \in breaks : i <= j
  IN [ k \in 1..(end - start) |-> lines[start + k] ]

\* the trades array (lines 436-460)
ParseTrades(lines) ==
  LET tradesStart == FindIndex(lines, <<"REALIZED", "TRADES">>)
      tradesHeaderStart == tradesStart + 2
      rows == SelectSeq(RowsFrom(lines, tradesHeaderStart + 2,
                                 { <<"PERFORMANCE">>, <<"OPEN", "POSITIONS">> }),
                        LAMBDA parts : Len(parts) >= 12)
  IN [ i \in 1..Len(rows) |->
         [ id |-> Part(rows[i], 0),
           symbol |-> Part(rows[i], 1),
           type |-> Part(rows[i], 2),
           position |-> Part(rows[i], 3),
           entryTime |-> <<Part(rows[i], 4), Part(rows[i], 5)>>,
           exitTime |-> <<Part(rows[i], 6), Part(rows[i], 7)>>,
           qty |-> Part(rows[i], 8),
           entry |-> Part(rows[i], 9),
           exit |-> Part(rows[i], 10),
           profit |-> Part(rows[i], 11),
           gainPercent |-> Part(rows[i], 12),
           sizePercent |-> Part(rows[i], 13) ] ]

\* the performanceByProduct array (lines 463-482)
ParseProducts(lines) ==
  LET productStart == FindIndex(lines, <<"PERFORMANCE", "BY", "PRODUCT">>)
      rows == SelectSeq(RowsFrom(lines, productStart + 4,
                                 { <<"PERFORMANCE", "BY", "POSITION">> }),
                        LAMBDA parts : Len(parts) >= 6)
  IN [ i \in 1..Len(rows) |->
         [ symbol |-> Part(rows[i], 0),
           type |-> Part(rows[i], 1),
           trades |-> Part(rows[i], 2),
           winPercent |-> Part(rows[i], 3),
           totalPL |-> Part(rows[i], 4),
           avgPercent |-> Part(rows[i], 5) ] ]

\* the performanceByPosition array (lines 485-503)
ParseSides(lines) ==
  LET positionTypeStart ==
        FindIndex(lines, <<"PERFORMANCE", "BY", "POSITION", "TYPE">>)
      rows == SelectSeq(RowsFrom(lines, positionTypeStart + 4,
                                 { <<"Source:">> }),
                        LAMBDA parts : Len(parts) >= 5)
  IN [ i \in 1..Len(rows) |->
         [ position |-> Part(rows[i], 0),
           trades |-> Part(rows[i], 1),
           winPercent |-> Part(rows[i], 2),
           totalPL |-> Part(rows[i], 3),
           avgPercent |-> Part(rows[i], 4) ] ]

\* the ParsedReport of a text; it has no field for the open positions
\* (lines 352-402)
parseReport(lines) ==
  LET overallStart == FindIndex(lines, <<"OVERALL", "PERFORMANCE">>)
      positionStart == FindIndex(lines, <<"POSITION", "BREAKDOWN">>)
      generated == FindIndex(lines, <<"Generated", "on:">>)
      sourceLine == FindIndex(lines, <<"Source:">>)
      capitalLine == FindIndex(lines, <<"Capital", "base:">>)
  IN [ generatedOn |-> AfterLabel(lines, generated, <<"Generated", "on:">>),
       overallPerformance |->
         [ totalTrades |->
             ParseInt(AfterLabel(lines, overallStart + 2, <<"Total", "Trades:">>)),
           winningTrades |->
             ParseInt(AfterLabel(lines, overallStart + 3,
                                 <<"Winning", "Trades:">>)),
           losingTrades |->
             ParseInt(AfterLabel(lines, overallStart + 4,
                                 <<"Losing", "Trades:">>)),
           winRate |-> AfterLabel(lines, overallStart + 5, <<"Win", "Rate:">>),
           avgGain |->
             AfterLabel(lines, overallStart + 6, <<"Average", "Gain:">>),
           avgLoss |->
             AfterLabel(lines, overallStart + 7, <<"Average", "Loss:">>),
           totalPL |-> AfterLabel(lines, overallStart + 8, <<"Total", "P/L:">>),
           profitFactor |->
             AfterLabel(lines, overallStart + 9, <<"Profit", "Factor:">>),
           avgSize |->
             AfterLabel(lines, overallStart + 10, <<"Average", "Size:">>) ],
       positionBreakdown |->
         [ longTrades |->
             ParseInt(AfterLabel(lines, positionStart + 1, <<"Long", "Trades:">>)),
           shortTrades |->
             ParseInt(AfterLabel(lines, positionStart + 2,
                                 <<"Short", "Trades:">>)),
           longPL |-> AfterLabel(lines, positionStart + 3, <<"Long", "P/L:">>),
           shortPL |->
             AfterLabel(lines, positionStart + 4, <<"Short", "P/L:">>) ],
       trades |-> ParseTrades(lines),
       performanceByProduct |-> ParseProducts(lines),
       performanceByPosition |-> ParseSides(lines),
       source |-> AfterLabel(lines, sourceLine, <<"Source:">>),
       capitalBase |-> AfterLabel(lines, capitalLine, <<"Capital", "base:">>) ]

(***************************************************************************)
(* processCSV to the page: the ledger, calculateMetrics, generateReport    *)
(* and the parseReport of ReportDisplay, on files of two symbols that do   *)
(* not start with an upper-case letter, one of them with a space in it.    *)
(* Every fill is of one contract.                                          *)
(***************************************************************************)
ReportSymbols == { <<"6", "E">>, <<"6", "E", " ", "M", "5">> }

ReportQuantities == { 0 - 1, 1 }

csvFileName == "trades.csv"

\* what new Date().toLocaleString() may read when the report is written
Clock == { "1/2/2025, 10:00:00 AM", "1/2/2025, 10:00:01 AM" }

ReportRows ==
  { MakeOrder(s, p, q, 0, 0) :
      s \in ReportSymbols, p \in Prices, q \in ReportQuantities }

ReportOrders ==
  IF pc = "loop" /\ Len(orders) < MaxOrders
  THEN { [ r EXCEPT !.timestamp = Len(orders) + 1, !.tag = Len(orders) + 1 ] :
           r \in ReportRows }
  ELSE {}

\* processCSV calls generateReport (line 840); the sort of line 706 is done
\* on the caller's array
GenerateReport(now) ==
  /\ pc = "done"
  /\ report' = generateReport(trades, openPositions, metrics, csvFileName, now)
  /\ openPositions' = SortBySymbol(openPositions)
  /\ pc' = "rendered"
  /\ UNCHANGED << file, loaded, page, calls,
                  orders, symbolPositions, symbolKeys, trades, tradeId,
                  remainingToClose, qtyToClose, metrics, parsed >>

\* ReportDisplay parses the text it is given (FileUpload.tsx, line 578)
ParseReport ==
  /\ pc = "rendered"
  /\ parsed' = parseReport(report)
  /\ pc' = "parsed"
  /\ UNCHANGED << file, loaded, page, calls,
                  orders, symbolPositions, symbolKeys, trades, tradeId,
                  remainingToClose, qtyToClose, openPositions, metrics,
                  report >>

NextReport ==
  \/ \E o \in ReportOrders : OpenLong(o)
  \/ \E o \in ReportOrders : BeginCloseShort(o)
  \/ CloseShortStep
  \/ CloseShortExit
  \/ \E o \in ReportOrders : OpenShort(o)
  \/ \E o \in ReportOrders : BeginCloseLong(o)
  \/ CloseLongStep
  \/ CloseLongExit
  \/ Finish
  \/ CalcMetrics
  \/ \E now \in Clock : GenerateReport(now)
  \/ ParseReport

SpecReport == Init /\ [][NextReport]_vars

(***************************************************************************)
(* generateReport and parseReport on their own: the trade list is any list *)
(* of at most MaxRows one-contract round trips of the two symbols, each    *)
(* one built as the ledger builds it, and the open positions are those of  *)
(* no symbol, of one, or of both in the order the ledger met them.         *)
(***************************************************************************)
RowExitPrices == { 90, 120 }

\* the trade of one contract entered at 100 in row 1 and closed in row 2
RowTrade(symbol, side, exit, id) ==
  IF side = "long"
  THEN LongTrade(id, MakeOrder(symbol, exit, 0 - 1, 2, 2),
                 Lot(1, 100, 1, MakeOrder(symbol, 100, 1, 1, 1)), 1)
  ELSE ShortTrade(id, MakeOrder(symbol, exit, 1, 2, 2),
                  Lot(0 - 1, 100, 1, MakeOrder(symbol, 100, 0 - 1, 1, 1)), 1)

RowLists ==
  UNION { [ 1..n -> ReportSymbols \X SampleSides \X RowExitPrices ] :
            n \in 0..MaxRows }

RowTradesOf(l) ==
  [ i \in 1..Len(l) |-> RowTrade(l[i][1], l[i][2], l[i][3], i) ]

\* the open position of one contract bought at 100 in row 3
RowOpen(symbol) ==
  OpenPosition(symbol,
               [ position |-> 1,
                 entries |-> <<Lot(1, 100, 3, MakeOrder(symbol, 100, 1, 3, 3))>> ])

RowOpenLists ==
  { <<>> } \cup { <<RowOpen(s)>> : s \in ReportSymbols }
           \cup { <<RowOpen(p[1]), RowOpen(p[2])>> :
                     p \in { q \in ReportSymbols \X ReportSymbols :
                               q[1] # q[2] } }

RenderInit ==
  /\ orders = <<>>
  /\ symbolPositions = <<>>
  /\ symbolKeys = <<>>
  /\ trades \in { RowTradesOf(l) : l \in RowLists }
  /\ tradeId = Len(trades) + 1
  /\ pc = "built"
  /\ remainingToClose = 0
  /\ qtyToClose = 0
  /\ openPositions \in RowOpenLists
  /\ metrics = None
  /\ report = <<>>
  /\ parsed = None
  /\ NoUpload

RenderNext ==
  \/ CalcMetrics
  \/ \E now \in Clock : GenerateReport(now)
  \/ ParseReport

SpecRender == RenderInit /\ [][RenderNext]_vars

(***************************************************************************)
(* loadOrdersFromCSV (lines 265-382) with parseTimestamp (208-217) and     *)
(* detectCSVFormat (219-263).  A file is the sequence of the lines of its  *)
(* text, split at '\n'; a line is the sequence of the values between its   *)
(* commas, trimmed and without their quotes.  The empty text is one line   *)
(* with one empty value.  The values are texts; what toLowerCase, Date,    *)
(* parseFloat and parseInt make of a text is tabulated for the texts of    *)
(* the files below.                                                        *)
(***************************************************************************)
MaxFileRows == 3    \* data lines of a file handed to loadOrdersFromCSV
MaxPageRows == 2    \* data lines of a file handed to processFile

\* h.toLowerCase().trim()
toLowerCase(text) ==
  CASE text = "Deploy" -> "deploy"
    [] text = "Time" -> "time"
    [] text = "Symbol" -> "symbol"
    [] text = "Price" -> "price"
    [] text = "Quantity" -> "quantity"
    [] text = "Type" -> "type"
    [] text = "Status" -> "status"
    [] text = "Value" -> "value"
    [] text = "Tag" -> "tag"
    [] text = "Note" -> "note"
    [] text = "6E" -> "6e"
    [] text = "Market" -> "market"
    [] text = "Filled" -> "filled"
    [] text = "2025-01-02T10:00:00Z" -> "2025-01-02t10:00:00z"
    [] OTHER -> text

\* header.toLowerCase().includes('deploy')
IncludesDeploy(text) == toLowerCase(text) \in { "deploy" }

\* the characters of a symbol value
Characters(text) ==
  CASE text = "6E" -> <<"6", "E">>
    [] text = "" -> <<>>

\* timestampStr.endsWith('Z') ? timestampStr.slice(0, -1) : timestampStr
WithoutZ(text) ==
  CASE text = "2025-01-02T10:00:00Z" -> "2025-01-02T10:00:00"
    [] text = "2025-01-02T10:00:01Z" -> "2025-01-02T10:00:01"
    [] OTHER -> text

\* new Date(text): the time value, in milliseconds from the midnight before
\* the first order; a text that is no date gives an invalid Date, and
\* nothing is thrown
DateOf(text) ==
  CASE text = "2025-01-02T10:00:00" -> 36000000
    [] text = "2025-01-02T10:00:01" -> 36001000
    [] OTHER -> InvalidDate

parseTimestamp(timestampStr) == DateOf(WithoutZ(timestampStr))

\* parseFloat(text) and parseInt(text) as quotients, NaN being 0 / 0
parseFloat(text) ==
  CASE text = "100" -> Num(100)
    [] text = "110" -> Num(110)
    [] text = "1" -> Num(1)
    [] text = "-1" -> Num(0 - 1)
    [] text = "-5" -> Num(0 - 5)
    [] text = "0" -> Num(0)
    [] OTHER -> Div(0, 0)

parseInt(text) == parseFloat(text)

\* x || 0 for a whole number or NaN
OrZero(x) == IF x = Div(0, 0) THEN 0 ELSE x[1]

\* headers.findIndex(h => h.toLowerCase().trim() === expected.toLowerCase()),
\* counted from 0
RECURSIVE HeaderIndexFrom(_, _, _)
HeaderIndexFrom(headers, expected, i) ==
  IF i >= Len(headers) THEN 0 - 1
  ELSE IF toLowerCase(headers[i + 1]) = toLowerCase(expected) THEN i
  ELSE HeaderIndexFrom(headers, expected, i + 1)

HeaderIndex(headers, expected) == HeaderIndexFrom(headers, expected, 0)

hasDeployColumn(headers) ==
  \E i \in 1..Len(headers) : IncludesDeploy(headers[i])

expectedHeaders(headers) ==
  IF hasDeployColumn(headers)
  THEN << "Deploy", "Time", "Symbol", "Price", "Quantity", "Type", "Status",
          "Value", "Tag" >>
  ELSE << "Time", "Symbol", "Price", "Quantity", "Type", "Status", "Value",
          "Tag" >>

\* columnMapping: the column of each expected header that is found by its
\* name, or else whose place in expectedHeaders is a column of the file,
\* counted from 0
detectCSVFormat(headers) ==
  LET expected == expectedHeaders(headers)
      mapped == { k \in 1..Len(expected) :
                    \/ HeaderIndex(headers, expected[k]) # 0 - 1
                    \/ k - 1 < Len(headers) }
      place == [ k \in mapped |-> IF HeaderIndex(headers, expected[k]) # 0 - 1
                                  THEN HeaderIndex(headers, expected[k])
                                  ELSE k - 1 ]
  IN [ name \in { expected[k] : k \in mapped } |->
         place[CHOOSE k \in mapped : expected[k] = name] ]

requiredColumns == << "Time", "Symbol", "Price", "Quantity", "Type", "Status" >>

\* missingColumns
missingColumns(columnMapping) ==
  SelectSeq(requiredColumns, LAMBDA col : col \notin DOMAIN columnMapping)

\* Math.max(...Object.values(columnMapping))
MaxColumn(columnMapping) ==
  CHOOSE m \in { columnMapping[c] : c \in DOMAIN columnMapping } :
    \A c \in DOMAIN columnMapping : columnMapping[c] <= m

\* values[columnMapping[name]] || '' ; Value and Tag may have no column
ValueOf(values, columnMapping, name) ==
  IF name \in DOMAIN columnMapping /\ columnMapping[name] < Len(values)
  THEN values[columnMapping[name] + 1]
  ELSE ""

\* faulty variant of Valid: every order is added
Valid_All(price, quantity) == TRUE

\* order.price > 0 && order.quantity !== 0 (line 356)
Valid(price, quantity) == price > 0 /\ quantity # 0

\* the orders line i adds to the array: none for an empty line, a line with
\* too few values, a line without one of the four critical values and a
\* line whose order is not valid (lines 302-358)
RowOrders(values, columnMapping, i) ==
  LET timeValue == ValueOf(values, columnMapping, "Time")
      symbolValue == ValueOf(values, columnMapping, "Symbol")
      priceValue == ValueOf(values, columnMapping, "Price")
      quantityValue == ValueOf(values, columnMapping, "Quantity")
  IN IF values = <<"">> THEN <<>>
     ELSE IF Len(values) < MaxColumn(columnMapping) + 1 THEN <<>>
     ELSE IF timeValue = "" \/ symbolValue = "" \/ priceValue = ""
             \/ quantityValue = "" THEN <<>>
     ELSE IF Valid(OrZero(parseFloat(priceValue)),
                   OrZero(parseInt(quantityValue)))
     THEN << MakeOrder(Characters(symbolValue),
                       OrZero(parseFloat(priceValue)),
                       OrZero(parseInt(quantityValue)),
                       parseTimestamp(timeValue), i) >>
     ELSE <<>>

\* faulty variant of RowsFromLine: the loop ends at the first line that adds
\* no order
RECURSIVE RowsFromLine_Break(_, _, _)
RowsFromLine_Break(lines, columnMapping, i) ==
  IF i >= Len(lines) \/ RowOrders(lines[i + 1], columnMapping, i) = <<>>
  THEN <<>>
  ELSE RowOrders(lines[i + 1], columnMapping, i)
         \o RowsFromLine_Break(lines, columnMapping, i + 1)

\* the array after the for loop over lines[i], lines[i + 1], ... (302-362)
RECURSIVE RowsFromLine(_, _, _)
RowsFromLine(lines, columnMapping, i) ==
  IF i >= Len(lines) THEN <<>>
  ELSE RowOrders(lines[i + 1], columnMapping, i)
         \o RowsFromLine(lines, columnMapping, i + 1)

\* o into the sorted array before the first element with a later timestamp
RECURSIVE InsertByTime(_, _)
InsertByTime(sorted, o) ==
  IF sorted = <<>> THEN <<o>>
  ELSE IF o.timestamp < Head(sorted).timestamp THEN <<o>> \o sorted
  ELSE <<Head(sorted)>> \o InsertByTime(Tail(sorted), o)

RECURSIVE StableSort(_)
StableSort(os) ==
  IF os = <<>> THEN <<>>
  ELSE InsertByTime(StableSort(SubSeq(os, 1, Len(os) - 1)), os[Len(os)])

\* the arrangements of an array
Arrangements(os) ==
  { [ k \in 1..Len(os) |-> os[p[k]] ] :
      p \in { q \in [1..Len(os) -> 1..Len(os)] :
                \A a, b \in 1..Len(os) : q[a] = q[b] => a = b } }

\* orders.sort((a, b) => a.timestamp.getTime() - b.timestamp.getTime())
\* (line 365): the sort is stable; when a timestamp is an invalid Date the
\* comparator returns NaN, it is no consistent comparator, and the order
\* of the array is whatever the engine's algorithm leaves
SortOutcomes(os) ==
  IF \E k \in 1..Len(os) : os[k].timestamp = InvalidDate
  THEN Arrangements(os)
  ELSE { StableSort(os) }

\* new Error(text), with the list a message ends with
Failure(text, detail) == [ text |-> text, detail |-> detail ]

\* the ways the promise of loadOrdersFromCSV settles for the text of a file
\* that has been read (reader.onload, lines 269-375)
onload(lines) ==
  IF Len(lines) < 2
  THEN { [ state |-> "rejected",
           error |-> Failure("CSV file must have at least a header row and one data row", <<>>) ] }
  ELSE IF missingColumns(detectCSVFormat(lines[1])) # <<>>
  THEN { [ state |-> "rejected",
           error |-> Failure("Missing required columns: ",
                             missingColumns(detectCSVFormat(lines[1]))) ] }
  ELSE { [ state |-> "resolved", orders |-> os ] :
           os \in SortOutcomes(RowsFromLine(lines, detectCSVFormat(lines[1]), 1)) }

\* reader.onerror (lines 377-379)
onerror == [ state |-> "rejected", error |-> Failure("Failed to read file", <<>>) ]

(***************************************************************************)
(* The files.  Most have the six required headers and up to a bounded      *)
(* number of data lines, each a well-formed order or a line with one       *)
(* defect; the others vary the header line and have at most one data line. *)
(***************************************************************************)
StandardHeader == << "Time", "Symbol", "Price", "Quantity", "Type", "Status" >>

Row(time, symbol, price, quantity) ==
  << time, symbol, price, quantity, "Market", "Filled" >>

BuyRow == Row("2025-01-02T10:00:00Z", "6E", "100", "1")

SellRow == Row("2025-01-02T10:00:01Z", "6E", "110", "-1")

WellFormedRows ==
  { BuyRow, SellRow, Row("2025-01-02T10:00:00Z", "6E", "110", "-1") }

MalformedRows ==
  { Row("", "6E", "100", "1"),
    Row("2025-01-02T10:00:00Z", "6E", "abc", "1"),
    Row("2025-01-02T10:00:00Z", "6E", "-5", "1"),
    Row("2025-01-02T10:00:00Z", "6E", "100", "x"),
    << "2025-01-02T10:00:00Z", "6E", "100" >>,
    << "" >> }

\* a line whose Time value is no date
UndatedRow == Row("n/a", "6E", "110", "-1")

StandardRows == WellFormedRows \cup MalformedRows \cup { UndatedRow }

Lists(S, n) == UNION { [ 1..k -> S ] : k \in 0..n }

\* header lines that are not the six required names in their order: lower
\* case with Price and Quantity exchanged, with a Deploy column, with three
\* columns, with a column of another name for Status, a data line, an
\* empty line
OtherFormats ==
  { [ header |-> << "time", "symbol", "quantity", "price", "type", "status" >>,
      rows |-> { << "2025-01-02T10:00:00Z", "6E", "1", "100", "Market", "Filled" >> } ],
    [ header |-> << "Deploy", "Time", "Symbol", "Price", "Quantity", "Type", "Status" >>,
      rows |-> { << "live" >> \o BuyRow, BuyRow } ],
    [ header |-> << "Time", "Symbol", "Price" >>, rows |-> { BuyRow } ],
    [ header |-> << "Time", "Symbol", "Price", "Quantity", "Type", "Note" >>,
      rows |-> { BuyRow, SellRow } ],
    [ header |-> BuyRow, rows |-> { BuyRow, SellRow } ],
    [ header |-> << "" >>, rows |-> { BuyRow } ] }

Files(n) ==
  { << StandardHeader >> \o rows : rows \in Lists(StandardRows, n) }
    \cup UNION { { << f.header >> \o rows : rows \in Lists(f.rows, 1) } :
                   f \in OtherFormats }

(***************************************************************************)
(* processCSV (lines 818-861) on a selected file.                          *)
(***************************************************************************)
\* faulty variant of NoValidOrders: the empty array is processed
NoValidOrders_Never(os) == FALSE

\* !orders.length (line 823)
NoValidOrders(os) == Len(os) = 0

\* toISOString() of an invalid Date throws a RangeError (lines 671-672)
Throws(ts) ==
  \E i \in 1..Len(ts) :
    ts[i].entryTime = InvalidDate \/ ts[i].exitTime = InvalidDate

\* what processCSV has thrown when it has thrown: the error of the catch
\* block of line 856, whose message ends with the error caught
Thrown ==
  IF loaded.state = "rejected"
  THEN Failure("Error processing CSV file: Error: ", <<loaded.error>>)
  ELSE IF NoValidOrders(loaded.orders)
  THEN Failure("Error processing CSV file: Error: ",
               <<Failure("No valid orders found in the CSV file.", <<>>)>>)
  ELSE Failure("Error processing CSV file: RangeError: ",
               <<Failure("Invalid time value", <<>>)>>)

\* await loadOrdersFromCSV(file) and the test of line 823
LoadOrders ==
  /\ pc = "load"
  /\ \/ /\ loaded' = onerror
        /\ pc' = "threw"
     \/ \E r \in onload(file) :
          /\ loaded' = r
          /\ pc' = IF r.state = "rejected" THEN "threw"
                   ELSE IF NoValidOrders(r.orders) THEN "threw"
                   ELSE "loop"
  /\ UNCHANGED << orders, symbolPositions, symbolKeys, trades, tradeId,
                  remainingToClose, qtyToClose, openPositions, metrics,
                  report, parsed, file, page, calls >>

\* the order the for loop of buildTradesFromOrders takes next
LoadedOrders ==
  IF pc = "loop" /\ loaded.state = "resolved" /\ Len(orders) < Len(loaded.orders)
  THEN { loaded.orders[Len(orders) + 1] }
  ELSE {}

\* the for loop is over
FinishLoaded ==
  /\ loaded.state = "resolved"
  /\ Len(orders) = Len(loaded.orders)
  /\ Finish

\* generateReport(trades, openPositions, metrics, file.name) (line 840)
RenderLoaded(now) ==
  \/ /\ ~Throws(trades)
     /\ GenerateReport(now)
  \/ /\ Throws(trades)
     /\ pc = "done"
     /\ pc' = "threw"
     /\ UNCHANGED << orders, symbolPositions, symbolKeys, trades, tradeId,
                     remainingToClose, qtyToClose, openPositions, metrics,
                     report, parsed, file, loaded, page, calls >>

LoadInit ==
  /\ orders = <<>>
  /\ symbolPositions = <<>>
  /\ symbolKeys = <<>>
  /\ trades = <<>>
  /\ tradeId = 1
  /\ pc = "load"
  /\ remainingToClose = 0
  /\ qtyToClose = 0
  /\ openPositions = <<>>
  /\ metrics = None
  /\ report = <<>>
  /\ parsed = None
  /\ file \in Files(MaxFileRows)
  /\ loaded = Pending
  /\ page = InitialPage
  /\ calls = <<>>

LoadNext ==
  \/ LoadOrders
  \/ \E o \in LoadedOrders : OpenLong(o)
  \/ \E o \in LoadedOrders : BeginCloseShort(o)
  \/ CloseShortStep
  \/ CloseShortExit
  \/ \E o \in LoadedOrders : OpenShort(o)
  \/ \E o \in LoadedOrders : BeginCloseLong(o)
  \/ CloseLongStep
  \/ CloseLongExit
  \/ FinishLoaded
  \/ CalcMetrics

SpecLoad == LoadInit /\ [][LoadNext]_vars

(***************************************************************************)
(* buildTradesFromOrders called on an array in any order of its times: the *)
(* fills are of one symbol at one price, at one of two times one second    *)
(* apart, of one or two contracts.                                         *)
(***************************************************************************)
FillTimes ==
  { parseTimestamp("2025-01-02T10:00:00Z"),
    parseTimestamp("2025-01-02T10:00:01Z") }

TimedOrders ==
  IF pc = "loop" /\ Len(orders) < MaxOrders
  THEN { [ r EXCEPT !.timestamp = t, !.tag = Len(orders) + 1 ] :
           r \in { x \in OrderRows : /\ x.price \in MixedPrices
                                     /\ x.symbol = <<"N", "Q", "2", "5">>
                                     /\ Abs(x.quantity) <= 2 },
           t \in FillTimes }
  ELSE {}

NextTimed ==
  \/ \E o \in TimedOrders : OpenLong(o)
  \/ \E o \in TimedOrders : BeginCloseShort(o)
  \/ CloseShortStep
  \/ CloseShortExit
  \/ \E o \in TimedOrders : OpenShort(o)
  \/ \E o \in TimedOrders : BeginCloseLong(o)
  \/ CloseLongStep
  \/ CloseLongExit
  \/ Finish

SpecTimed == Init /\ [][NextTimed]_vars

(***************************************************************************)
(* processFile (FileUpload.tsx, lines 57-73) with the handlers Index gives *)
(* it (Index.tsx, lines 14-22).                                            *)
(***************************************************************************)
\* a report an earlier run of processFile has delivered
EarlierReport ==
  generateReport(<<RowTrade(<<"6", "E">>, "long", 120, 1)>>, <<>>,
                 calculateMetrics(<<RowTrade(<<"6", "E">>, "long", 120, 1)>>),
                 csvFileName, "1/2/2025, 10:00:00 AM")

\* faulty variant of handleError: the report is left as it is
handleError_KeepReport(p, errorMessage) ==
  [ p EXCEPT !.error = <<errorMessage>> ]

\* setError(errorMessage); setReport(null) (Index.tsx, lines 19-22)
handleError(p, errorMessage) ==
  [ p EXCEPT !.error = <<errorMessage>>, !.report = null ]

\* faulty variant of handleFileProcessed: the error is left as it is
handleFileProcessed_KeepError(p, reportContent) ==
  [ p EXCEPT !.report = <<reportContent>> ]

\* setReport(reportContent); setError(null) (Index.tsx, lines 14-17)
handleFileProcessed(p, reportContent) ==
  [ p EXCEPT !.report = <<reportContent>>, !.error = null ]

\* the Process button is clicked: setIsProcessing(true), processCSV is
\* called
ProcessFile ==
  /\ pc = "idle"
  /\ page' = [ page EXCEPT !.isProcessing = TRUE ]
  /\ pc' = "load"
  /\ UNCHANGED << orders, symbolPositions, symbolKeys, trades, tradeId,
                  remainingToClose, qtyToClose, openPositions, metrics,
                  report, parsed, file, loaded, calls >>

\* processCSV has returned: onFileProcessed(report), then the finally block
Deliver ==
  /\ pc = "rendered"
  /\ calls' = Append(calls, [ callback |-> "onFileProcessed", argument |-> report ])
  /\ page' = [ handleFileProcessed(page, report) EXCEPT !.isProcessing = FALSE ]
  /\ pc' = "delivered"
  /\ UNCHANGED << orders, symbolPositions, symbolKeys, trades, tradeId,
                  remainingToClose, qtyToClose, openPositions, metrics,
                  report, parsed, file, loaded >>

\* processCSV has thrown: onError(error.message), then the finally block
Fail ==
  /\ pc = "threw"
  /\ calls' = Append(calls, [ callback |-> "onError", argument |-> Thrown ])
  /\ page' = [ handleError(page, Thrown) EXCEPT !.isProcessing = FALSE ]
  /\ pc' = "failed"
  /\ UNCHANGED << orders, symbolPositions, symbolKeys, trades, tradeId,
                  remainingToClose, qtyToClose, openPositions, metrics,
                  report, parsed, file, loaded >>

PageInit ==
  /\ orders = <<>>
  /\ symbolPositions = <<>>
  /\ symbolKeys = <<>>
  /\ trades = <<>>
  /\ tradeId = 1
  /\ pc = "idle"
  /\ remainingToClose = 0
  /\ qtyToClose = 0
  /\ openPositions = <<>>
  /\ metrics = None
  /\ report = <<>>
  /\ parsed = None
  /\ file \in Files(MaxPageRows)
  /\ loaded = Pending
  /\ page \in { InitialPage, handleFileProcessed(InitialPage, EarlierReport) }
  /\ calls = <<>>

PageNext ==
  \/ ProcessFile
  \/ LoadOrders
  \/ \E o \in LoadedOrders : OpenLong(o)
  \/ \E o \in LoadedOrders : BeginCloseShort(o)
  \/ CloseShortStep
  \/ CloseShortExit
  \/ \E o \in LoadedOrders : OpenShort(o)
  \/ \E o \in LoadedOrders : BeginCloseLong(o)
  \/ CloseLongStep
  \/ CloseLongExit
  \/ FinishLoaded
  \/ CalcMetrics
  \/ \E now \in Clock : RenderLoaded(now)
  \/ Deliver
  \/ Fail

SpecPage == PageInit /\ [][PageNext]_vars

\* the steps of a run of processFile after the click
RunStep ==
  \/ LoadOrders
  \/ \E o \in LoadedOrders : OpenLong(o)
  \/ \E o \in LoadedOrders : BeginCloseShort(o)
  \/ CloseShortStep
  \/ CloseShortExit
  \/ \E o \in LoadedOrders : OpenShort(o)
  \/ \E o \in LoadedOrders : BeginCloseLong(o)
  \/ CloseLongStep
  \/ CloseLongExit
  \/ FinishLoaded
  \/ CalcMetrics
  \/ \E now \in Clock : RenderLoaded(now)
  \/ Deliver
  \/ Fail

\* every step of a run changes the place of the run, the orders taken or
\* the trades made
progress == << pc, orders, trades >>

\* the file is read and the promise settles; the code that follows an await
\* runs when the promise has settled, and nothing else stops a run
SpecPageFair == PageInit /\ [][PageNext]_vars /\ WF_progress(RunStep)

(***************************************************************************)
(* The upload card (FileUpload.tsx, lines 15-165) on the page: a file is   *)
(* chosen, processed any number of times and taken away again.  The        *)
(* variable file is selectedFile, <<>> while it is null; the variables of  *)
(* the ledger are those of the latest run of processFile.                  *)
(***************************************************************************)
\* setReport(null); setError(null); setIsProcessing(false) (Index.tsx,
\* lines 23-27)
handleReset(p) ==
  [ p EXCEPT !.report = null, !.error = null, !.isProcessing = FALSE ]

\* faulty variant of disabled: the two buttons can always be clicked
disabled_Never(p) == FALSE

\* disabled={isProcessing} on the X button and on the Generate Report button
\* (lines 144, 153)
disabled(p) == p.isProcessing

\* file.name.toLowerCase().endsWith('.csv') (line 43)
endsWithCsv(name) ==
  CASE name = "trades.csv" -> TRUE
    [] name = "TRADES.CSV" -> TRUE
    [] OTHER -> FALSE

\* 10 * 1024 * 1024 (line 48)
MaxFileSize == 10 * 1024 * 1024

\* the files the user may drop or pick: a long round trip, a short round
\* trip, a trade whose exit has no date, a header alone, a header without
\* the required columns; a file that is no CSV file and one that is too large
UploadLines ==
  { << StandardHeader, BuyRow, SellRow >>,
    << StandardHeader, Row("2025-01-02T10:00:00Z", "6E", "110", "-1"), BuyRow >>,
    << StandardHeader, BuyRow, UndatedRow >>,
    << StandardHeader >>,
    << << "Time", "Symbol", "Price" >>, BuyRow >> }

Uploads ==
  { [ name |-> csvFileName, size |-> 2048, lines |-> l ] : l \in UploadLines }
    \cup { [ name |-> "trades.txt", size |-> 2048,
             lines |-> << StandardHeader, BuyRow, SellRow >> ],
           [ name |-> csvFileName, size |-> MaxFileSize,
             lines |-> << StandardHeader, SellRow, BuyRow >> ],
           [ name |-> "TRADES.CSV", size |-> MaxFileSize + 1,
             lines |-> << StandardHeader, BuyRow, SellRow >> ] }

\* handleFile (lines 40-55); the drop zone and the file input are rendered
\* only while selectedFile is null (line 85)
HandleFile(f) ==
  /\ file = <<>>
  /\ IF ~endsWithCsv(f.name)
     THEN /\ page' = handleError(page, Failure("Please select a CSV file.", <<>>))
          /\ UNCHANGED file
     ELSE IF f.size > MaxFileSize
     THEN /\ page' = handleError(page, Failure("File size must be less than 10MB.", <<>>))
          /\ UNCHANGED file
     ELSE /\ file' = f.lines
          /\ page' = handleError(page, Failure("", <<>>))
  /\ UNCHANGED << orders, symbolPositions, symbolKeys, trades, tradeId, pc,
                  remainingToClose, qtyToClose, openPositions, metrics,
                  report, parsed, loaded, calls >>

\* the Generate Report button is clicked (lines 57-62, 152-153): a new call
\* of processFile with variables of its own
ClickProcess ==
  /\ file # <<>>
  /\ ~disabled(page)
  /\ page' = [ page EXCEPT !.isProcessing = TRUE ]
  /\ pc' = "load"
  /\ orders' = <<>>
  /\ symbolPositions' = <<>>
  /\ symbolKeys' = <<>>
  /\ trades' = <<>>
  /\ tradeId' = 1
  /\ remainingToClose' = 0
  /\ qtyToClose' = 0
  /\ openPositions' = <<>>
  /\ metrics' = None
  /\ report' = <<>>
  /\ parsed' = None
  /\ loaded' = Pending
  /\ calls' = <<>>
  /\ UNCHANGED file

\* the X button is clicked: resetFile (lines 75-81, 141-144)
ResetFile ==
  /\ file # <<>>
  /\ ~disabled(page)
  /\ file' = <<>>
  /\ page' = handleReset(page)
  /\ UNCHANGED << orders, symbolPositions, symbolKeys, trades, tradeId, pc,
                  remainingToClose, qtyToClose, openPositions, metrics,
                  report, parsed, loaded, calls >>

UploadInit ==
  /\ orders = <<>>
  /\ symbolPositions = <<>>
  /\ symbolKeys = <<>>
  /\ trades = <<>>
  /\ tradeId = 1
  /\ pc = "idle"
  /\ remainingToClose = 0
  /\ qtyToClose = 0
  /\ openPositions = <<>>
  /\ metrics = None
  /\ report = <<>>
  /\ parsed = None
  /\ NoUpload

UploadNext ==
  \/ \E f \in Uploads : HandleFile(f)
  \/ ClickProcess
  \/ ResetFile
  \/ RunStep

SpecUpload == UploadInit /\ [][UploadNext]_vars

\* as in SpecPageFair, nothing stops a run of processFile; the user may
\* leave the page as it is for ever
SpecUploadFair == UploadInit /\ [][UploadNext]_vars /\ WF_progress(RunStep)

(***************************************************************************)
(* Properties.  Helpers of the statements, computed from the input orders  *)
(* and the emitted trades alone.                                           *)
(***************************************************************************)
\* no order is half processed
AtOrderBoundary == pc \in { "loop", "built" }

\* a closing loop is running
Closing == pc \in { "closeShort", "closeLong" }

RECURSIVE SignedLotSum(_)
SignedLotSum(entries) ==
  IF entries = <<>> THEN 0 ELSE Head(entries).qty + SignedLotSum(Tail(entries))

RECURSIVE SignedOrderSum(_, _)
SignedOrderSum(os, symbol) ==
  IF os = <<>> THEN 0
  ELSE (IF Head(os).symbol = symbol THEN Head(os).quantity ELSE 0)
         + SignedOrderSum(Tail(os), symbol)

RECURSIVE ClosedQtySum(_)
ClosedQtySum(ts) ==
  IF ts = <<>> THEN 0 ELSE Head(ts).quantity + ClosedQtySum(Tail(ts))

\* the trades whose closing order is row n of the file
TradesOfRow(n) == SelectSeq(trades, LAMBDA t : t.exitTag = n)

QtysOf(os) == [ i \in 1..Len(os) |-> os[i].quantity ]

PricesOf(os) == [ i \in 1..Len(os) |-> os[i].price ]

\* C1: after every processed order, for every symbol seen, the signed sum
\* of the quantities of the symbol's lots equals its net position, which
\* equals the signed sum of the quantities of the orders processed so far
\* for the symbol
C1_LotsMatchPosition ==
  AtOrderBoundary =>
    \A s \in DOMAIN symbolPositions :
      /\ SignedLotSum(symbolPositions[s].entries) = symbolPositions[s].position
      /\ symbolPositions[s].position = SignedOrderSum(orders, s)

\* two symbols traded: one flipped from long to short by its second order,
\* the other opened by the third order
C1_Witness ==
  /\ pc = "loop"
  /\ Len(orders) = 3
  /\ Cardinality(DOMAIN symbolPositions) = 2
  /\ Len(trades) = 1
  /\ symbolPositions[orders[1].symbol].position < 0
  /\ symbolPositions[orders[3].symbol].position > 0

\* the new trade of a closing step
NewTrade == trades'[Len(trades')]

Emits == Closing /\ Len(trades') = Len(trades) + 1

\* C2: a closing order consumes the lots oldest first: each closing step
\* trades against the first lot, no lot behind it is older, the lot is
\* removed when fully closed, and a lot left partially open ends the
\* order's closing (nothing is left to close) with only its quantity
\* reduced
C2_FifoSteps ==
  [][ Emits =>
        LET entries == posData.entries
            after == symbolPositions'[order.symbol].entries
            lot == entries[1]
        IN /\ NewTrade.entryTime = lot.time
           /\ NewTrade.entryTag = lot.order.tag
           /\ \A i \in 2..Len(entries) : entries[i].time >= lot.time
           /\ IF NewTrade.quantity = Abs(lot.qty)
              THEN after = Tail(entries)
              ELSE /\ qtyToClose' = 0
                   /\ after = [ entries EXCEPT
                                  ![1].qty = lot.qty - Sign(lot.qty) * NewTrade.quantity ]
    ]_vars

\* C2, the example: lots of 3 (t1) and 5 (t2), one closing order of 4
C2_FifoExample ==
  ( /\ AtOrderBoundary
    /\ Len(orders) = 3
    /\ QtysOf(orders) \in { <<3, 5, 0 - 4>>, <<0 - 3, 0 - 5, 4>> } )
  => /\ Len(trades) = 2
     /\ trades[1].quantity = 3 /\ trades[1].entryTime = orders[1].timestamp
     /\ trades[1].entryPrice = orders[1].price
     /\ trades[2].quantity = 1 /\ trades[2].entryTime = orders[2].timestamp
     /\ trades[2].entryPrice = orders[2].price
     /\ Len(posData.entries) = 1
     /\ Abs(posData.entries[1].qty) = 4
     /\ posData.entries[1].time = orders[2].timestamp
     /\ posData.entries[1].price = orders[2].price
     /\ posData.entries[1].order = orders[2]

\* C2: a closing order consumes the symbol's lots strictly oldest first;
\* with lots of 3 then 5, one closing order of 4 yields two trades, 3 units
\* against the first lot and 1 against the second, leaving one lot of 4
\* with the second lot's entry data
C2_Fifo == C2_FifoSteps /\ []C2_FifoExample

C2_Witness ==
  /\ pc = "loop"
  /\ QtysOf(orders) = <<3, 5, 0 - 4>>
  /\ PricesOf(orders) = <<100, 110, 100>>
  /\ Len(trades) = 2

\* the net position of the last order's symbol before that order
PriorPosition == SignedOrderSum(SubSeq(orders, 1, Len(orders) - 1), order.symbol)

\* the last order is opposite to the prior position and larger than it
LastOrderFlips ==
  /\ orders # <<>>
  /\ PriorPosition * order.quantity < 0
  /\ Abs(order.quantity) > Abs(PriorPosition)

\* C3: position flip: an order opposite to the net position P and larger
\* than |P| produces trades whose closed quantities sum to |P|, empties the
\* old lots and leaves exactly one new lot in the order's direction, of
\* |quantity| - |P| units at the order's price and timestamp; long 3 at 100
\* then sell 5 at 110 gives one long trade of 3 with profit
\* (110 - 100) * multiplier * 3 and one short open position of 2 at 110
C3_Flip ==
  /\ (AtOrderBoundary /\ LastOrderFlips) =>
       /\ ClosedQtySum(TradesOfRow(order.tag)) = Abs(PriorPosition)
       /\ Len(posData.entries) = 1
       /\ posData.entries[1] =
            Lot(Sign(order.quantity) * (Abs(order.quantity) - Abs(PriorPosition)),
                order.price, order.timestamp, order)
  /\ (AtOrderBoundary /\ QtysOf(orders) = <<3, 0 - 5>>
        /\ PricesOf(orders) = <<100, 110>>) =>
       /\ Len(trades) = 1
       /\ trades[1].position = "long"
       /\ trades[1].quantity = 3
       /\ trades[1].profit = (110 - 100) * order.multiplier * 3
       /\ pc = "built" =>
            /\ Len(openPositions) = 1
            /\ openPositions[1].position = "short"
            /\ openPositions[1].quantity = 2
            /\ openPositions[1].avgPrice = Num(110)

\* long 3 at 100, sell 5 at 110, and the results returned
C3_Witness ==
  /\ pc = "built"
  /\ QtysOf(orders) = <<3, 0 - 5>>
  /\ PricesOf(orders) = <<100, 110>>
  /\ Len(trades) = 1
  /\ Len(openPositions) = 1

\* short to long: a third order flips a short position built by two sells
C3_WitnessShort ==
  /\ pc = "loop"
  /\ QtysOf(orders) = <<0 - 1, 0 - 2, 5>>
  /\ Len(trades) = 2
  /\ posData.position = 2

RECURSIVE AbsQtySum(_)
AbsQtySum(os) ==
  IF os = <<>> THEN 0 ELSE Abs(Head(os).quantity) + AbsQtySum(Tail(os))

RECURSIVE FillValueSum(_)
FillValueSum(os) ==
  IF os = <<>> THEN 0
  ELSE Abs(Head(os).quantity) * Head(os).price + FillValueSum(Tail(os))

SameDirection(os) ==
  \/ \A i \in 1..Len(os) : os[i].quantity > 0
  \/ \A i \in 1..Len(os) : os[i].quantity < 0

\* C4: a sequence of orders on one symbol that all have the same direction
\* generates no trade and exactly one open position, whose average price
\* is the volume-weighted mean of the fill prices
C4_SameDirection ==
  (pc = "built" /\ SameDirection(orders)) =>
    /\ trades = <<>>
    /\ Len(openPositions) = 1
    /\ openPositions[1].avgPrice[2] > 0
    /\ openPositions[1].avgPrice[1] * AbsQtySum(orders)
         = FillValueSum(orders) * openPositions[1].avgPrice[2]

\* three sells at two different prices and with different quantities
C4_Witness ==
  /\ pc = "built"
  /\ QtysOf(orders) = <<0 - 1, 0 - 2, 0 - 4>>
  /\ PricesOf(orders) = <<100, 110, 110>>
  /\ Len(openPositions) = 1

RECURSIVE BoughtSum(_)
BoughtSum(os) ==
  IF os = <<>> THEN 0
  ELSE (IF Head(os).quantity > 0 THEN Head(os).quantity ELSE 0)
         + BoughtSum(Tail(os))

\* C5: when the signed quantities of the orders on one symbol sum to 0, the
\* symbol's lot queue is empty, no open position is returned, and the
\* closed quantities of the trades sum to the matched volume (the units
\* bought, which are the units sold)
C5_Flat ==
  (AtOrderBoundary /\ orders # <<>> /\ SignedOrderSum(orders, order.symbol) = 0) =>
    /\ posData.entries = <<>>
    /\ posData.position = 0
    /\ ClosedQtySum(trades) = BoughtSum(orders)
    /\ ClosedQtySum(trades) * 2 = AbsQtySum(orders)
    /\ pc = "built" => openPositions = <<>>

\* short 2, short 3, then one buy of 5 that closes both lots
C5_Witness ==
  /\ pc = "built"
  /\ QtysOf(orders) = <<0 - 2, 0 - 3, 5>>
  /\ Len(trades) = 2
  /\ openPositions = <<>>

\* C6: trade ids are 1-based and sequential in generation order: the k-th
\* trade has tradeId k, the trades appear in the order their closing orders
\* were processed, and the trades of one order that closes several lots
\* appear oldest lot first
C6_TradeIds ==
  /\ tradeId = Len(trades) + 1
  /\ \A k \in 1..Len(trades) :
       /\ trades[k].tradeId = k
       /\ k > 1 =>
            /\ trades[k - 1].exitTag <= trades[k].exitTag
            /\ trades[k - 1].exitTag = trades[k].exitTag =>
                 /\ trades[k - 1].entryTag < trades[k].entryTag
                 /\ trades[k - 1].entryTime <= trades[k].entryTime

\* one order has closed two lots
C6_Witness ==
  /\ Len(trades) = 2
  /\ trades[1].exitTag = trades[2].exitTag
  /\ trades[1].entryTag # trades[2].entryTag

\* C7: every emitted trade has a closed quantity that is strictly positive
\* and at most the remaining quantity of the lot being closed and the
\* quantity of the closing order still to be matched
C7_ClosedQty ==
  [][ Emits =>
        /\ NewTrade.quantity > 0
        /\ NewTrade.quantity <= Abs(posData.entries[1].qty)
        /\ NewTrade.quantity <= qtyToClose
        /\ NewTrade.quantity
             <= Abs(order.quantity) - ClosedQtySum(TradesOfRow(order.tag))
    ]_vars

\* a closing loop that has emitted a trade and has more to close
C7_Witness ==
  /\ pc = "closeLong"
  /\ TradesOfRow(order.tag) # <<>>
  /\ qtyToClose > 0
  /\ Len(posData.entries) > 0

\* C8: every trade's side is the direction of the lot it closed: long
\* exactly when the lot's quantity was positive, short exactly when it was
\* negative
C8_SideOfLot ==
  [][ Emits =>
        /\ NewTrade.position = "long" <=> posData.entries[1].qty > 0
        /\ NewTrade.position = "short" <=> posData.entries[1].qty < 0
    ]_vars

\* a long trade followed by a short trade
C8_Witness ==
  /\ Len(trades) = 2
  /\ trades[1].position = "long"
  /\ trades[2].position = "short"
  /\ pc = "loop"

\* C9: every trade's profit is (exitPrice - entryPrice) * multiplier *
\* closedQuantity when its side is long and (entryPrice - exitPrice) *
\* multiplier * closedQuantity when it is short, entryPrice being the closed
\* lot's price and exitPrice and multiplier the closing order's
C9_Profit ==
  [][ Emits =>
        /\ NewTrade.entryPrice = posData.entries[1].price
        /\ NewTrade.exitPrice = order.price
        /\ NewTrade.position \in { "long", "short" }
        /\ NewTrade.position = "long" =>
             NewTrade.profit = (NewTrade.exitPrice - NewTrade.entryPrice)
                                 * order.multiplier * NewTrade.quantity
        /\ NewTrade.position = "short" =>
             NewTrade.profit = (NewTrade.entryPrice - NewTrade.exitPrice)
                                 * order.multiplier * NewTrade.quantity
    ]_vars

\* a winning long trade and a winning short trade
C9_Witness ==
  /\ Len(trades) = 2
  /\ trades[1].position = "long" /\ trades[1].profit > 0
  /\ trades[2].position = "short" /\ trades[2].profit > 0

ProfitsOf(ts) == [ i \in 1..Len(ts) |-> ts[i].profit ]

RECURSIVE GrossWin(_)
GrossWin(ps) ==
  IF ps = <<>> THEN 0
  ELSE (IF Head(ps) > 0 THEN Head(ps) ELSE 0) + GrossWin(Tail(ps))

RECURSIVE GrossLoss(_)
GrossLoss(ps) ==
  IF ps = <<>> THEN 0
  ELSE (IF Head(ps) < 0 THEN 0 - Head(ps) ELSE 0) + GrossLoss(Tail(ps))

\* C10: profitFactor is (sum of winning profits) / (sum of absolute losing
\* profits) when there are losses (profits 100, -50, 200, -25 give 4),
\* positive infinity when all trades are wins, and 0 for the empty list
C10_ProfitFactor ==
  pc = "done" =>
    LET ps == ProfitsOf(trades)
        pf == metrics.profitFactor
    IN /\ trades = <<>> => pf = Num(0)
       /\ (\E i \in 1..Len(ps) : ps[i] < 0) =>
            /\ pf[2] > 0
            /\ pf[1] * GrossLoss(ps) = GrossWin(ps) * pf[2]
       /\ (trades # <<>> /\ \A i \in 1..Len(ps) : ps[i] > 0) =>
            pf = POSITIVE_INFINITY
       /\ ps = <<100, 0 - 50, 200, 0 - 25>> => pf = Num(4)

C10_Witness ==
  /\ pc = "done"
  /\ ProfitsOf(trades) = <<100, 0 - 50, 200, 0 - 25>>
  /\ metrics.profitFactor = Num(4)

\* C11: the profit factor is positive infinity only for a list with no
\* losing trade and at least one winning trade; for every other list,
\* a non-empty list of zero-profit trades included, it is finite
C11_InfinityOnlyWithWin ==
  pc = "done" =>
    LET ps == ProfitsOf(trades)
        pf == metrics.profitFactor
        winsNoLoss == /\ \A i \in 1..Len(ps) : ~(ps[i] < 0)
                      /\ \E i \in 1..Len(ps) : ps[i] > 0
    IN IF winsNoLoss THEN pf = POSITIVE_INFINITY ELSE pf[2] > 0

\* the denominator of a quotient is not zero: the quotient is a number
Finite(r) == r[2] > 0

\* C12: no ratio field is the result of a division by zero: the empty list
\* gives the all-zero metrics, avgGain is 0 without a winner, avgLoss is 0
\* without a loser, winPercentage and avgSize are divided by a non-zero
\* count, and the profit factor is a quotient only over non-zero losses
C12_RatiosGuarded ==
  pc = "done" =>
    LET ps == ProfitsOf(trades)
    IN /\ trades = <<>> => metrics = EmptyMetrics
       /\ Finite(metrics.winPercentage) /\ Finite(metrics.avgSize)
       /\ Finite(metrics.avgGain) /\ Finite(metrics.avgLoss)
       /\ (\A i \in 1..Len(ps) : ~(ps[i] > 0)) => metrics.avgGain = Num(0)
       /\ (\A i \in 1..Len(ps) : ~(ps[i] < 0)) => metrics.avgLoss = Num(0)
       /\ metrics.profitFactor[2] = 0 =>
            /\ metrics.profitFactor = POSITIVE_INFINITY
            /\ GrossLoss(ps) = 0
       /\ trades # <<>> =>
            /\ metrics.winPercentage[1] * Len(ps)
                 = metrics.winningTrades * 100 * metrics.winPercentage[2]
            /\ metrics.totalTrades = Len(ps)

\* the empty list, and a list with a loser and no winner, were measured
C12_Witness ==
  /\ pc = "done"
  /\ trades = <<>>
  /\ metrics = EmptyMetrics

C12_WitnessNoWinner ==
  /\ pc = "done"
  /\ ProfitsOf(trades) = <<0 - 50, 0>>
  /\ metrics.avgGain = Num(0)
  /\ metrics.avgLoss # Num(0)

\* C13: a trade whose entry price is 0 has percentGain exactly 0, long or
\* short, whatever its exit price
C13_ZeroEntryPrice ==
  \A i \in 1..Len(trades) :
    trades[i].entryPrice = 0 => trades[i].percentGain = Num(0)

\* a long trade entered at price 0, and a short trade entered at price 0
\* and closed at price 100
C13_Witness ==
  /\ \E i \in 1..Len(trades) :
       /\ trades[i].position = "long"
       /\ trades[i].entryPrice = 0
       /\ trades[i].percentGain = Num(0)
  /\ \E i \in 1..Len(trades) :
       /\ trades[i].position = "short"
       /\ trades[i].entryPrice = 0 /\ trades[i].exitPrice = 100
       /\ trades[i].percentGain = Num(0)

\* the places of a symbol in a list of open positions
PlacesOf(ops, symbol) == { i \in 1..Len(ops) : ops[i].symbol = symbol }

\* C14: once all orders are processed there is exactly one open position
\* for each symbol whose net position (the signed sum of its orders) is not
\* zero and none for a symbol whose net position is zero; its side is long
\* for a positive and short for a negative net position, and its quantity
\* is the magnitude of the net position
C14_OpenPositions ==
  pc = "built" =>
    \A s \in Symbols :
      LET net == SignedOrderSum(orders, s)
          places == PlacesOf(openPositions, s)
      IN IF net = 0 THEN places = {}
         ELSE /\ Cardinality(places) = 1
              /\ \A i \in places :
                   /\ openPositions[i].position
                        = (IF net > 0 THEN "long" ELSE "short")
                   /\ openPositions[i].quantity = Abs(net)

\* a three-order file that closes a lot of one symbol and leaves that symbol
\* short by 2 and the other symbol long
C14_Witness ==
  /\ pc = "built"
  /\ Len(orders) = 3
  /\ \E s \in Symbols :
       /\ SignedOrderSum(orders, s) = 0 - 2
       /\ \E i \in 1..Len(trades) : trades[i].symbol = s
       /\ \E i \in 1..Len(openPositions) :
            /\ openPositions[i].symbol = s
            /\ openPositions[i].position = "short"
            /\ openPositions[i].quantity = 2
  /\ \E s \in Symbols :
       /\ SignedOrderSum(orders, s) > 0
       /\ PlacesOf(openPositions, s) # {}

\* the rows of the table that follows the first line with the title: the
\* lines from four below the title to the next empty line
TableRows(lines, title) ==
  IF FindIndex(lines, title) < 0 THEN <<>>
  ELSE RowsFrom(lines, FindIndex(lines, title) + 4, {})

\* the report has been written
Rendered == pc \in { "rendered", "parsed" }

\* the row of the file in which a symbol occurs first
FirstRow(symbol) ==
  CHOOSE i \in 1..Len(orders) :
    /\ orders[i].symbol = symbol
    /\ \A j \in 1..(i - 1) : orders[j].symbol # symbol

\* ascending by symbol
SortedBySymbol(ops) ==
  \A i \in 1..Len(ops) : \A j \in (i + 1)..Len(ops) :
    LocaleLess(ops[i].symbol, ops[j].symbol)

IsPhrase(line, phrase) == Len(line) = Len(phrase) /\ PhraseAt(line, 1, phrase)

\* the line is the phrase followed by "(n)"
IsCounted(line, phrase, n) ==
  /\ Len(line) = Len(phrase) + 1
  /\ PhraseAt(line, 1, phrase)
  /\ line[Len(line)] = IntWord("(", n, ")")

\* the section a line opens, "" for a line that opens none
TitleOf(line) ==
  IF IsPhrase(line, <<"OVERALL", "PERFORMANCE">>) THEN "OVERALL PERFORMANCE"
  ELSE IF IsPhrase(line, <<"POSITION", "BREAKDOWN">>) THEN "POSITION BREAKDOWN"
  ELSE IF IsCounted(line, <<"REALIZED", "TRADES">>, Len(trades))
       THEN "REALIZED TRADES (n)"
  ELSE IF IsCounted(line, <<"OPEN", "POSITIONS">>, Len(openPositions))
       THEN "OPEN POSITIONS (n)"
  ELSE IF IsPhrase(line, <<"PERFORMANCE", "BY", "PRODUCT">>)
       THEN "PERFORMANCE BY PRODUCT"
  ELSE IF IsPhrase(line, <<"PERFORMANCE", "BY", "POSITION", "TYPE">>)
       THEN "PERFORMANCE BY POSITION TYPE"
  ELSE IF Len(line) > 0 /\ PhraseAt(line, 1, <<"Source:">>) THEN "footer"
  ELSE ""

\* the sections of a text, in the order of the text
SectionsOf(lines) ==
  SelectSeq([ i \in 1..Len(lines) |-> TitleOf(lines[i]) ], LAMBDA t : t # "")

\* C16 as stated: for every input, the one without a trade included, the
\* sections come in the order OVERALL PERFORMANCE, POSITION BREAKDOWN,
\* REALIZED TRADES (n), OPEN POSITIONS (n), PERFORMANCE BY PRODUCT,
\* PERFORMANCE BY POSITION TYPE, footer; OPEN POSITIONS is there exactly
\* when there is an open position and every other section always
C16_AllSections ==
  Rendered =>
    SectionsOf(report)
      = <<"OVERALL PERFORMANCE", "POSITION BREAKDOWN", "REALIZED TRADES (n)">>
          \o (IF Len(openPositions) > 0 THEN <<"OPEN POSITIONS (n)">> ELSE <<>>)
          \o <<"PERFORMANCE BY PRODUCT", "PERFORMANCE BY POSITION TYPE",
               "footer">>

\* C16, amended: the sections come in that order; REALIZED TRADES (n) and
\* PERFORMANCE BY PRODUCT are there exactly when there is a realized trade,
\* OPEN POSITIONS (n) exactly when there is an open position, and the four
\* other sections always
C16_Sections ==
  Rendered =>
    SectionsOf(report)
      = <<"OVERALL PERFORMANCE", "POSITION BREAKDOWN">>
          \o (IF Len(trades) > 0 THEN <<"REALIZED TRADES (n)">> ELSE <<>>)
          \o (IF Len(openPositions) > 0 THEN <<"OPEN POSITIONS (n)">> ELSE <<>>)
          \o (IF Len(trades) > 0 THEN <<"PERFORMANCE BY PRODUCT">> ELSE <<>>)
          \o <<"PERFORMANCE BY POSITION TYPE", "footer">>

\* a report of no trade and two open positions: five sections
C16_Witness ==
  /\ Rendered
  /\ Len(trades) = 0
  /\ Len(openPositions) = 2
  /\ SectionsOf(report)
       = <<"OVERALL PERFORMANCE", "POSITION BREAKDOWN", "OPEN POSITIONS (n)",
           "PERFORMANCE BY POSITION TYPE", "footer">>

\* a report of two trades and an open position: all seven sections
C16_WitnessAll ==
  /\ Rendered
  /\ Len(trades) = 2
  /\ Len(openPositions) = 1
  /\ Len(SectionsOf(report)) = 7

\* C17: every row of the REALIZED TRADES table splits at its white space
\* into exactly 14 fields, for every trade the ledger can produce, so that
\* parseReport reads each field of the trade from its fixed index
C17_FourteenFields ==
  /\ Rendered =>
       LET rows == TableRows(report, <<"REALIZED", "TRADES">>)
       IN /\ Len(rows) = Len(trades)
          /\ \A i \in 1..Len(rows) : Len(rows[i]) = 14
  /\ pc = "parsed" =>
       /\ Len(parsed.trades) = Len(trades)
       /\ \A i \in 1..Len(parsed.trades) :
            /\ parsed.trades[i].id = IntWord("", trades[i].tradeId, "")
            /\ parsed.trades[i].position = Word(trades[i].position)
            /\ parsed.trades[i].qty = IntWord("", trades[i].quantity, "")
            /\ parsed.trades[i].sizePercent
                 = FixedWord("", trades[i].size, 1, "%")

\* the rows of the four tables of a text
RenderedRows(lines) ==
  Len(TableRows(lines, <<"REALIZED", "TRADES">>))
    + Len(TableRows(lines, <<"OPEN", "POSITIONS">>))
    + Len(TableRows(lines, <<"PERFORMANCE", "BY", "PRODUCT">>))
    + Len(TableRows(lines, <<"PERFORMANCE", "BY", "POSITION", "TYPE">>))

\* the rows a ParsedReport holds
ParsedRows(p) ==
  Len(p.trades) + Len(p.performanceByProduct) + Len(p.performanceByPosition)
    + (IF "openPositions" \in DOMAIN p THEN Len(p.openPositions) ELSE 0)

\* C18: parseReport(generateReport(...)) reproduces every rendered row and
\* field: as many trades as were rendered, with the rendered values, every
\* open-position row, every by-product row and every by-position-type row;
\* no row is dropped
C18_RoundTrip ==
  pc = "parsed" =>
    /\ ParsedRows(parsed) = RenderedRows(report)
    /\ Len(parsed.trades) = Len(trades)
    /\ \A i \in 1..Len(parsed.trades) :
         /\ parsed.trades[i].id = IntWord("", trades[i].tradeId, "")
         /\ <<parsed.trades[i].symbol>> = CharWords(trades[i].symbol)
         /\ parsed.trades[i].position = Word(trades[i].position)
         /\ parsed.trades[i].entryTime = TimeWords(trades[i].entryTime)
         /\ parsed.trades[i].exitTime = TimeWords(trades[i].exitTime)
         /\ parsed.trades[i].qty = IntWord("", trades[i].quantity, "")
         /\ parsed.trades[i].entry
              = FixedWord("$", Num(trades[i].entryPrice), 2, "")
         /\ parsed.trades[i].exit
              = FixedWord("$", Num(trades[i].exitPrice), 2, "")
         /\ parsed.trades[i].profit
              = FixedWord("$", Num(trades[i].profit), 2, "")
         /\ parsed.trades[i].gainPercent
              = FixedWord("", trades[i].percentGain, 1, "%")
         /\ parsed.trades[i].sizePercent
              = FixedWord("", trades[i].size, 1, "%")
    /\ Len(parsed.performanceByProduct)
         = Len(ProductKeys(trades, <<>>))
    /\ Len(parsed.performanceByPosition)
         = Cardinality({ trades[i].position : i \in 1..Len(trades) })

\* the keys in ascending lexicographic order
AscendingKeys(keys) ==
  [ i \in 1..Len(keys) |->
      keys[CHOOSE j \in 1..Len(keys) :
             Cardinality({ k \in 1..Len(keys) : CodeUnitLess(keys[k], keys[j]) })
               = i - 1] ]

\* C19: the PERFORMANCE BY PRODUCT table has one row for each distinct
\* baseSymbol of the trades, and the rows are in ascending lexicographic
\* order of that key, for every set of keys, one key being a prefix of
\* another included
C19_ProductRows ==
  (Rendered /\ Len(trades) > 0) =>
    LET keys == AscendingKeys(ProductKeys(trades, <<>>))
    IN TableRows(report, <<"PERFORMANCE", "BY", "PRODUCT">>)
         = [ i \in 1..Len(keys) |-> ProductRow(keys[i], trades) ]

\* C20: generateReport is a deterministic pure function of (trades,
\* openPositions, metrics, sourceLabel): the text of a call is the text of
\* every call with the same arguments, whatever the clock reads, and the
\* call leaves its arguments as they were
C20_Pure ==
  [][ (pc = "done" /\ pc' = "rendered") =>
        /\ \A now \in Clock :
             report' = generateReport(trades, openPositions, metrics,
                                      csvFileName, now)
        /\ trades' = trades
        /\ openPositions' = openPositions
        /\ metrics' = metrics ]_vars

\* the words after "Profit Factor:" on the line that carries the label
ProfitFactorWords(lines) ==
  AfterLabel(lines, FindIndex(lines, <<"Profit", "Factor:">>),
             <<"Profit", "Factor:">>)

\* the word is a decimal number with the given number of fraction digits
\* and nothing around it
IsDecimal(w, digits) ==
  /\ w.kind = "fixed"
  /\ w.pre = "" /\ w.post = ""
  /\ "digits" \in DOMAIN w.fixed
  /\ w.fixed.digits = digits

\* C21 as stated: the Profit Factor line of every rendered report carries a
\* decimal number with exactly two fraction digits, for every Metrics value
\* calculateMetrics can return
C21_TwoDigits ==
  Rendered =>
    /\ Len(ProfitFactorWords(report)) = 1
    /\ IsDecimal(ProfitFactorWords(report)[1], 2)

\* C21, amended: the Profit Factor line carries a decimal number with
\* exactly two fraction digits when the profit factor is finite; when
\* calculateMetrics returns positive infinity (a non-empty list without a
\* losing trade) the line carries the word Infinity
C21_TwoDigitsOrInfinity ==
  Rendered =>
    /\ Len(ProfitFactorWords(report)) = 1
    /\ IF metrics.profitFactor = POSITIVE_INFINITY
       THEN ProfitFactorWords(report)[1]
              = [ kind |-> "fixed", pre |-> "", post |-> "",
                  fixed |-> [ text |-> "Infinity" ] ]
       ELSE /\ Finite(metrics.profitFactor)
            /\ IsDecimal(ProfitFactorWords(report)[1], 2)
            /\ ProfitFactorWords(report)[1].fixed.scaled * 2 * metrics.profitFactor[2]
                 <= 200 * metrics.profitFactor[1] + metrics.profitFactor[2]
            /\ 200 * metrics.profitFactor[1] - metrics.profitFactor[2]
                 < ProfitFactorWords(report)[1].fixed.scaled * 2
                     * metrics.profitFactor[2]

\* a report of winning trades only: the line reads "Profit Factor: Infinity"
C21_Witness ==
  /\ Rendered
  /\ Len(trades) = 2
  /\ \A i \in 1..Len(trades) : trades[i].profit > 0
  /\ ProfitFactorWords(report)[1].fixed = [ text |-> "Infinity" ]

\* a report of a win and a loss: the line carries a two-digit decimal
C21_WitnessFinite ==
  /\ Rendered
  /\ metrics.winningTrades = 1 /\ metrics.losingTrades = 1
  /\ IsDecimal(ProfitFactorWords(report)[1], 2)
  /\ ProfitFactorWords(report)[1].fixed.scaled > 0

\* the trades of a symbol, and the orders of a symbol
TradesOfSymbol(symbol) == SelectSeq(trades, LAMBDA t : t.symbol = symbol)

OrdersOfSymbol(symbol) == SelectSeq(orders, LAMBDA o : o.symbol = symbol)

\* C29: at every point of the processing and for every symbol, the closed
\* quantities of the symbol's trades so far sum to no more than the volume
\* (the sum of |quantity|) of the symbol's orders taken so far; a closed
\* unit is a unit of the entry order and a unit of the closing order, so
\* the sum is no more than half of that volume
C29_ClosedWithinVolume ==
  \A s \in Symbols :
    /\ ClosedQtySum(TradesOfSymbol(s)) <= AbsQtySum(OrdersOfSymbol(s))
    /\ 2 * ClosedQtySum(TradesOfSymbol(s)) <= AbsQtySum(OrdersOfSymbol(s))

\* inside a closing loop, after a trade that closes the whole volume of its
\* symbol, with an order of another symbol taken before
C29_Witness ==
  /\ Closing
  /\ TradesOfRow(order.tag) # <<>>
  /\ 2 * ClosedQtySum(TradesOfSymbol(order.symbol))
       = AbsQtySum(OrdersOfSymbol(order.symbol))
  /\ \E s \in Symbols :
       /\ s # order.symbol
       /\ OrdersOfSymbol(s) # <<>>

\* the net position of the symbol of row k before row k
PositionBefore(k) == SignedOrderSum(SubSeq(orders, 1, k - 1), orders[k].symbol)

\* the rows whose processing is over
ProcessedRows == 1..(IF Closing THEN Len(orders) - 1 ELSE Len(orders))

\* C30: for each processed order, the closed quantities of the trades it
\* emits sum to min(|quantity|, |P|) when the order's sign is opposite to
\* the net position P of its symbol before the order, and the order emits
\* no trade when P is 0 or has the order's sign
C30_ClosedPerOrder ==
  \A k \in ProcessedRows :
    IF PositionBefore(k) * orders[k].quantity < 0
    THEN ClosedQtySum(TradesOfRow(k))
           = Min(Abs(orders[k].quantity), Abs(PositionBefore(k)))
    ELSE TradesOfRow(k) = <<>>

\* a sell of 2 against a long position of 5 closes 2; the buy of 1 that
\* follows meets a long position and emits nothing
C30_Witness ==
  /\ pc = "loop"
  /\ Len(orders) = 3
  /\ \A k \in 1..3 : orders[k].symbol = orders[1].symbol
  /\ QtysOf(orders) = <<5, 0 - 2, 1>>
  /\ ClosedQtySum(TradesOfRow(2)) = 2
  /\ TradesOfRow(3) = <<>>

\* the lots of every symbol, in one sequence
RECURSIVE LotsOf(_, _)
LotsOf(keys, positions) ==
  IF keys = <<>> THEN <<>>
  ELSE positions[Head(keys)].entries \o LotsOf(Tail(keys), positions)

\* the orders loadOrdersFromCSV has resolved with, none before
LoadedSeq == IF loaded.state = "resolved" THEN loaded.orders ELSE <<>>

\* C22: no order with quantity 0 and no order with price <= 0 is in the
\* array loadOrdersFromCSV resolves with or among the orders the ledger has
\* taken, and no lot has quantity 0 or a price <= 0
C22_ValidOrdersOnly ==
  /\ \A k \in 1..Len(LoadedSeq) :
       LoadedSeq[k].price > 0 /\ LoadedSeq[k].quantity # 0
  /\ \A k \in 1..Len(orders) : orders[k].price > 0 /\ orders[k].quantity # 0
  /\ \A k \in 1..Len(LotsOf(symbolKeys, symbolPositions)) :
       /\ LotsOf(symbolKeys, symbolPositions)[k].qty # 0
       /\ LotsOf(symbolKeys, symbolPositions)[k].price > 0

\* the ledger has processed a file with a line of price -5, a line of
\* quantity 'x' and one well-formed line, and holds the lot of that line
C22_Witness ==
  /\ pc = "built"
  /\ file = << StandardHeader,
               Row("2025-01-02T10:00:00Z", "6E", "-5", "1"),
               Row("2025-01-02T10:00:00Z", "6E", "100", "x"),
               BuyRow >>
  /\ Len(orders) = 1
  /\ Len(LotsOf(symbolKeys, symbolPositions)) = 1

\* C23: every order the ledger takes has a valid timestamp
C23_ValidTimestamps ==
  \A k \in 1..Len(orders) : orders[k].timestamp # InvalidDate

\* C24: the array loadOrdersFromCSV resolves with is in ascending order of
\* its valid timestamps, and orders of one timestamp are in the order of
\* their lines
C24_SortedStable ==
  \A i, j \in 1..Len(LoadedSeq) :
    ( /\ i < j
      /\ LoadedSeq[i].timestamp # InvalidDate
      /\ LoadedSeq[j].timestamp # InvalidDate )
    => /\ LoadedSeq[i].timestamp <= LoadedSeq[j].timestamp
       /\ LoadedSeq[i].timestamp = LoadedSeq[j].timestamp
            => LoadedSeq[i].tag < LoadedSeq[j].tag

\* what processFile hands to onError when no order is valid
NoValidOrdersMessage ==
  Failure("Error processing CSV file: Error: ",
          <<Failure("No valid orders found in the CSV file.", <<>>)>>)

\* C25: when loadOrdersFromCSV resolves with no order, processCSV throws:
\* the ledger, calculateMetrics and generateReport never run, no report is
\* returned, and the error the caller gets says that no order is valid
C25_NoReportWithoutOrders ==
  (loaded.state = "resolved" /\ loaded.orders = <<>>)
  => /\ pc \in { "threw", "failed" }
     /\ orders = <<>>
     /\ trades = <<>>
     /\ openPositions = <<>>
     /\ metrics = None
     /\ report = <<>>
     /\ Thrown = NoValidOrdersMessage
     /\ pc = "failed"
          => /\ calls = << [ callback |-> "onError",
                             argument |-> NoValidOrdersMessage ] >>
             /\ page.report = null

\* a file of two lines without a valid order has failed
C25_Witness ==
  /\ pc = "failed"
  /\ loaded.state = "resolved"
  /\ loaded.orders = <<>>
  /\ Len(file) = 3
  /\ file[2] # <<"">>
  /\ page.error = <<NoValidOrdersMessage>>

\* the header line has no value that is the name of the column
Unnamed(headers, column) ==
  \A i \in 1..Len(headers) : toLowerCase(headers[i]) # toLowerCase(column)

\* C26: empty input, input whose first line is a data line and input whose
\* header line lacks the name of a required column are rejected, and no
\* order is built
C26_Rejected ==
  ( /\ loaded # Pending
    /\ \/ file = << <<"">> >>
       \/ file[1] = BuyRow
       \/ \E k \in 1..Len(requiredColumns) :
            Unnamed(file[1], requiredColumns[k]) )
  => /\ loaded.state = "rejected"
     /\ orders = <<>>

\* the order a well-formed line of a file with the standard header becomes
ExpectedOrder(values, i) ==
  CASE values = BuyRow -> MakeOrder(<<"6", "E">>, 100, 1, 36000000, i)
    [] values = SellRow -> MakeOrder(<<"6", "E">>, 110, 0 - 1, 36001000, i)
    [] OTHER -> MakeOrder(<<"6", "E">>, 110, 0 - 1, 36000000, i)

\* the orders of line i in the array
OrdersOfLine(i) == SelectSeq(LoadedSeq, LAMBDA o : o.tag = i)

\* C27: in a file with the standard header a malformed line is skipped and
\* the load goes on: the array holds no order of a malformed line and
\* exactly the order of each well-formed line, before or after it
C27_RowsSkipped ==
  (loaded.state = "resolved" /\ file[1] = StandardHeader)
  => \A i \in 1..(Len(file) - 1) :
       /\ file[i + 1] \in MalformedRows => OrdersOfLine(i) = <<>>
       /\ file[i + 1] \in WellFormedRows
            => OrdersOfLine(i) = <<ExpectedOrder(file[i + 1], i)>>

\* a malformed line between two well-formed lines
C27_Witness ==
  /\ loaded.state = "resolved"
  /\ file = << StandardHeader, BuyRow,
               Row("2025-01-02T10:00:00Z", "6E", "abc", "1"), SellRow >>
  /\ Len(loaded.orders) = 2
  /\ loaded.orders[1].tag = 1
  /\ loaded.orders[2].tag = 3

\* the callbacks of the run so far: at most one call, made when the run
\* ends; onFileProcessed with the report processCSV returned, or onError
\* with a message when processCSV has thrown, and then Index holds no
\* report
OneCallback ==
  /\ Len(calls) <= 1
  /\ Len(calls) = 1 <=> pc \in { "delivered", "failed" }
  /\ pc = "delivered"
       => /\ calls[1] = [ callback |-> "onFileProcessed", argument |-> report ]
          /\ loaded.state = "resolved"
          /\ report = generateReport(trades, openPositions, metrics,
                                     csvFileName, report[3][3].value)
          /\ page = [ report |-> <<report>>, error |-> null,
                      isProcessing |-> FALSE ]
  /\ pc = "failed"
       => /\ calls[1] = [ callback |-> "onError", argument |-> Thrown ]
          /\ Thrown.text # ""
          /\ report = <<>>
          /\ page = [ report |-> null, error |-> <<Thrown>>,
                      isProcessing |-> FALSE ]

\* C28: a run of processFile ends, and it ends in one outcome: it calls
\* onFileProcessed with the complete report, or it calls onError with a
\* message; when processCSV fails no report is delivered and Index is left
\* with report = null
C28_OneOutcome ==
  /\ []OneCallback
  /\ (pc = "load") ~> (pc \in { "delivered", "failed" })

\* generateReport has thrown on a trade without a valid time, and Index
\* holds the error
C28_Witness ==
  /\ pc = "failed"
  /\ loaded.state = "resolved"
  /\ Throws(trades)
  /\ page.report = null
  /\ Len(calls) = 1

\* a report has been delivered
C28_WitnessReport ==
  /\ pc = "delivered"
  /\ Len(trades) = 1
  /\ page.report = <<report>>

\* the order of row n among the orders taken
OrderOfRow(n) == orders[CHOOSE k \in 1..Len(orders) : orders[k].tag = n]

\* a closing step leaves the remainder of a partly closed lot at the front
\* of the queue, the same lot but for its quantity, and removes a fully
\* closed lot; the lots behind it are as they were
RemainderAtFront ==
  [][ Emits =>
        LET entries == posData.entries
            after == symbolPositions'[order.symbol].entries
            lot == entries[1]
        IN IF NewTrade.quantity < Abs(lot.qty)
           THEN /\ Len(after) = Len(entries)
                /\ after[1].price = lot.price
                /\ after[1].time = lot.time
                /\ after[1].order = lot.order
                /\ Sign(after[1].qty) = Sign(lot.qty)
                /\ Abs(after[1].qty) = Abs(lot.qty) - NewTrade.quantity
                /\ Tail(after) = Tail(entries)
           ELSE after = Tail(entries)
    ]_vars

\* every lot carries the price and the timestamp of its originating order,
\* and every trade the entry price, time and tag of the order that opened
\* its lot and the exit tag of an order taken later
EntryDataKept ==
  /\ \A s \in DOMAIN symbolPositions :
       \A i \in 1..Len(symbolPositions[s].entries) :
         LET lot == symbolPositions[s].entries[i]
         IN /\ lot.order \in { orders[k] : k \in 1..Len(orders) }
            /\ lot.price = lot.order.price
            /\ lot.time = lot.order.timestamp
  /\ \A i \in 1..Len(trades) :
       /\ trades[i].entryTag \in { orders[k].tag : k \in 1..Len(orders) }
       /\ trades[i].exitTag \in { orders[k].tag : k \in 1..Len(orders) }
       /\ trades[i].entryTag < trades[i].exitTag
       /\ trades[i].entryPrice = OrderOfRow(trades[i].entryTag).price
       /\ trades[i].entryTime = OrderOfRow(trades[i].entryTag).timestamp
       /\ trades[i].exitPrice = OrderOfRow(trades[i].exitTag).price

\* C31: the remainder of a partly closed lot stays at the front of the
\* queue with its entry price, entry timestamp and originating order, its
\* quantity reduced in magnitude by the closed amount and its sign kept; a
\* fully closed lot is removed; so every later trade against the lot has
\* the entry price, time and tag of the order that opened it, and the
\* closing order's tag as its exit tag
C31_PartialClose == RemainderAtFront /\ []EntryDataKept

\* a lot of 5 bought at 100, partly closed by two sells at 110: both trades
\* carry the entry data of row 1, the remainder of 1 is the only lot
C31_Witness ==
  /\ pc = "loop"
  /\ QtysOf(orders) = <<5, 0 - 2, 0 - 2>>
  /\ PricesOf(orders) = <<100, 110, 110>>
  /\ Len(trades) = 2
  /\ trades[1].entryTag = 1 /\ trades[1].exitTag = 2
  /\ trades[2].entryTag = 1 /\ trades[2].exitTag = 3
  /\ trades[2].entryPrice = 100
  /\ Len(posData.entries) = 1
  /\ posData.entries[1].qty = 1

\* C32: a step of the processing of an order for symbol S leaves the net
\* position and the lot queue of every other symbol as they were, and a
\* symbol enters the ledger only with its first order, which finds the net
\* position 0 and an empty queue: after it the symbol holds the one lot of
\* that order and no trade has been made
C32_OtherSymbolsKept ==
  [][ Len(orders') > 0 =>
        LET o == orders'[Len(orders')]
        IN /\ \A s \in DOMAIN symbolPositions :
                s # o.symbol =>
                  /\ s \in DOMAIN symbolPositions'
                  /\ symbolPositions'[s] = symbolPositions[s]
           /\ \A s \in DOMAIN symbolPositions' \ DOMAIN symbolPositions :
                /\ s = o.symbol
                /\ Len(orders') = Len(orders) + 1
                /\ SignedOrderSum(orders, s) = 0
                /\ symbolPositions'[s] =
                     [ position |-> o.quantity,
                       entries |-> << Lot(o.quantity, o.price, o.timestamp, o) >> ]
                /\ trades' = trades
    ]_vars

\* the third order closes a lot of the first symbol while the second
\* symbol, entered by the second order, holds its lot
C32_Witness ==
  /\ pc = "loop"
  /\ Len(orders) = 3
  /\ orders[2].symbol # orders[1].symbol
  /\ orders[3].symbol = orders[1].symbol
  /\ Len(trades) = 1
  /\ symbolPositions[orders[2].symbol] =
       [ position |-> orders[2].quantity,
         entries |-> << Lot(orders[2].quantity, orders[2].price,
                            orders[2].timestamp, orders[2]) >> ]

CoveredByQueue ==
  Closing => /\ qtyToClose >= 0
             /\ qtyToClose <= SumAbsQty(posData.entries)

\* the while loop is left with nothing left to close
ExitAtZero ==
  (Closing /\ ~(qtyToClose > 0 /\ Len(posData.entries) > 0))
     => qtyToClose = 0

\* every iteration lowers the quantity left to close
QtyDecreases ==
  [][ (Closing /\ pc' = pc) => qtyToClose' < qtyToClose ]_vars

\* C34: the closing loop always terminates, it is always left because the
\* quantity left to close has reached 0 and never because the queue ran
\* empty with quantity left, and buildTradesFromOrders runs to completion
C34_LoopTerminates ==
  /\ [](CoveredByQueue /\ ExitAtZero)
  /\ QtyDecreases
  /\ Closing ~> (pc = "loop")
  /\ <>(pc = "built")

\* a closing loop at its exit after two iterations that emptied the queue
C34_Witness ==
  /\ pc = "closeLong"
  /\ qtyToClose = 0
  /\ posData.entries = <<>>
  /\ Len(TradesOfRow(Len(orders))) = 2

\* the orders are in ascending order of their timestamps
Ascending(os) ==
  \A i, j \in 1..Len(os) : i < j => os[i].timestamp <= os[j].timestamp

\* C35: when the orders are processed in ascending order of their
\* timestamps, every trade has an exit timestamp not before its entry
\* timestamp and a duration >= 0, and the trades one closing order emits
\* have non-decreasing entry timestamps in the order of their emission
C35_DurationNonNegative ==
  Ascending(orders) =>
    /\ \A k \in 1..Len(trades) :
         /\ trades[k].exitTime >= trades[k].entryTime
         /\ trades[k].duration[1] >= 0 /\ trades[k].duration[2] > 0
    /\ \A i, j \in 1..Len(trades) :
         (i < j /\ trades[i].exitTag = trades[j].exitTag)
           => trades[i].entryTime <= trades[j].entryTime

\* one sell has closed a lot of the first second and a lot of the next one
C35_Witness ==
  /\ pc = "loop"
  /\ Ascending(orders)
  /\ Len(trades) = 2
  /\ trades[1].exitTag = trades[2].exitTag
  /\ trades[1].entryTime < trades[2].entryTime
  /\ trades[1].duration = Div(1, 60)
  /\ trades[2].duration = Div(0, 1)

C37_ReportOrError ==
  /\ page.report # null => page.error = null
  /\ page.error # null => page.report = null

\* a run has delivered its report to a page whose error was not null when
\* the run began: handleFile had set it to ''
C37_Witness ==
  /\ pc = "delivered"
  /\ page.report = <<report>>
  /\ page.error = null
  /\ ~page.isProcessing

\* a call of processFile has begun and has not reached the end of its
\* finally block
Running ==
  pc \in { "load", "loop", "closeShort", "closeLong", "built", "done",
           "rendered", "threw" }

\* a run is under way exactly while isProcessing is true, and the file it
\* works on stays selected
ProcessingWhileRunning ==
  /\ Running <=> page.isProcessing
  /\ Running => file # <<>>

\* while a run is under way no run begins, no file is taken away or
\* chosen, and nothing but the run changes the page
OneRunAtATime ==
  [][ Running => /\ ~(pc' = "load" /\ loaded' = Pending /\ loaded # Pending)
                 /\ file' = file
                 /\ (page' # page => pc' \in { "delivered", "failed" })
    ]_vars

\* C38: every run of processFile that sets isProcessing to true sets it
\* back to false once processCSV has settled; while isProcessing is true
\* neither resetFile nor a second processFile can be started, so no report
\* of a run is delivered after a reset and no two runs overlap
C38_RunsFinish ==
  /\ []ProcessingWhileRunning
  /\ OneRunAtATime
  /\ page.isProcessing ~> ~page.isProcessing

\* a second run on the selected file is in its closing loop while the page
\* still shows the report of the first
C38_Witness ==
  /\ pc = "closeLong"
  /\ page.isProcessing
  /\ page.report # null
  /\ file # <<>>

=============================================================================
